---- MODULE Spec2Model ----
(***************************************************************************)
(* The hyperspace relayer (ComposableFi/light-clients): two chains A and   *)
(* B, one relay task per direction, the chain capability (AnyChain and its *)
(* Wasm decorator, ParachainClient), the on-chain GRANDPA light client's   *)
(* packet verification, and the finality-driven relay pipeline.            *)
(***************************************************************************)
EXTENDS Integers, Sequences, FiniteSets, TLC

VARIABLES
    chains,     \* [Chains -> AnyChain]: the relayer's chain handles
    ledger,     \* [Chains -> on-chain IBC state]
    finality,   \* [Chains -> Seq(finality event)]: finality_notifications() not yet consumed
    queue,      \* [Chains -> Seq(batch)]: submissions serialised per destination
    log,        \* [Chains -> what the submitter delivered to that chain so far]
    list,       \* an operation on its own: the chain handle and the arguments it is given
    batches,    \* an operation on its own: what it makes of them
    inflight,   \* [Chains -> set of submit calls outstanding on that chain]
    ibc_events, \* [Chains -> Seq(UpdateClient event)]: ibc_events() not yet consumed
    tasks,      \* [Chains -> state of the auxiliary event task that watches that chain]
    justifications, \* the relay chain's justification subscription, as the node sends it
    boot        \* the bootstrap helper that is running, its handles and its outcome

\* the parts of the state the relay tasks and the submitter leave alone
aux == <<inflight, ibc_events, tasks, justifications, boot>>

vars == <<chains, ledger, finality, queue, log, list, batches, aux>>

----------------------------------------------------------------------------
(* Bounds of the model *)

MaxHeight == 3        \* block numbers are capped here (the chain stops at the cap)
MaxSeq == 2           \* packets sent per channel
MaxQueue == 1         \* finality events buffered per source
MaxPending == 2       \* a task starts an iteration with fewer of its batches queued
MaxDelay == 1         \* largest connection delay period, in time units
ScanSeqs == 2         \* packets outstanding when the scanner is started on a given state
MaxLen == 4           \* messages in a list given to the submitter on its own
MaxWeight == 4        \* largest max_extrinsic_weight of a chain given to the submitter
MaxEvents == 1        \* UpdateClient events buffered per chain for the event task

----------------------------------------------------------------------------
(* Small helpers *)

Chains == {"A", "B"}

Other(c) == IF c = "A" THEN "B" ELSE "A"

Min(a, b) == IF a <= b THEN a ELSE b

Max(a, b) == IF a >= b THEN a ELSE b

SetMin(S) == CHOOSE x \in S : \A y \in S : x <= y

SetMax(S) == CHOOSE x \in S : \A y \in S : x >= y

RECURSIVE Ascending(_)
\* the elements of a finite set of numbers as an ascending sequence
Ascending(S) == IF S = {} THEN << >> ELSE <<SetMin(S)>> \o Ascending(S \ {SetMin(S)})

RECURSIVE Flatten(_)
Flatten(ss) == IF ss = << >> THEN << >> ELSE Head(ss) \o Flatten(Tail(ss))

Range(s) == {s[i] : i \in 1..Len(s)}

----------------------------------------------------------------------------
(* Identifiers and message shapes *)

Channels == {"channel-0", "channel-1"}

Port == "transfer"

NoTimeout == 0        \* a timeout height or timestamp of zero disables that timeout

UPDATE_CLIENT_TYPE_URL == "/ibc.core.client.v1.MsgUpdateClient"

CREATE_CLIENT_TYPE_URL == "/ibc.core.client.v1.MsgCreateClient"

CONN_OPEN_TRY_TYPE_URL == "/ibc.core.connection.v1.MsgConnectionOpenTry"

CONN_OPEN_ACK_TYPE_URL == "/ibc.core.connection.v1.MsgConnectionOpenAck"

RECV_PACKET_TYPE_URL == "/ibc.core.channel.v1.MsgRecvPacket"

ACK_PACKET_TYPE_URL == "/ibc.core.channel.v1.MsgAcknowledgement"

TIMEOUT_TYPE_URL == "/ibc.core.channel.v1.MsgTimeout"

TIMEOUT_ON_CLOSE_TYPE_URL == "/ibc.core.channel.v1.MsgTimeoutOnClose"

PacketTypeUrls == {RECV_PACKET_TYPE_URL, ACK_PACKET_TYPE_URL, TIMEOUT_TYPE_URL}

\* MsgUpdateAnyClient{client_id, client_message, signer}; the client message is the
\* finality proof for block `height` of the source, whose header carries `timestamp`
MsgUpdateAnyClient(client_id, f, signer) ==
    [type_url |-> UPDATE_CLIENT_TYPE_URL, client_id |-> client_id,
     client_message |-> [variant |-> "Grandpa", height |-> f.height, timestamp |-> f.timestamp],
     signer |-> signer]

\* a packet message: the packet fingerprint, the height its proof is rooted at, the signer
PacketMsg(url, p, proof_height, signer) ==
    [type_url |-> url, channel |-> p.channel, port |-> p.port, sequence |-> p.sequence,
     proof_height |-> proof_height, signer |-> signer]

IsPacketMsg(m) == m.type_url \in PacketTypeUrls

----------------------------------------------------------------------------
(* The chain capability: ParachainClient, and AnyChain with its Wasm decorator *)

\* ParachainClient<T>: the fields of the handle the relay reads
ParachainClient(name, client_id, whitelist, weight) ==
    [variant |-> "Parachain", name |-> name, client_id |-> client_id,
     channel_whitelist |-> whitelist, max_extrinsic_weight |-> weight,
     finality_protocol |-> "Grandpa"]

\* WasmChain { inner, code_id, client_type }
WasmChain(inner, code_id, client_type) ==
    [variant |-> "Wasm", inner |-> inner, code_id |-> code_id, client_type |-> client_type]

\* AnyChain::name
name(c) == IF c.variant = "Wasm" THEN c.inner.name ELSE c.name

\* a faulty client_id, which names a client the counterparty does not hold
ClientIdOfNobody(c) == "07-tendermint-9"

\* AnyChain::client_id
client_id(c) == IF c.variant = "Wasm" THEN c.inner.client_id ELSE c.client_id

\* AnyChain::account_id: the signer of everything submitted to this chain
account_id(c) == <<"signer", name(c)>>

\* a faulty channel_whitelist, which lists every channel of the port
ChannelWhitelistOfAll(c) == <<<<"channel-0", Port>>, <<"channel-1", Port>>>>

\* AnyChain::channel_whitelist
channel_whitelist(c) ==
    IF c.variant = "Wasm" THEN c.inner.channel_whitelist ELSE c.channel_whitelist

\* ParachainClient::block_max_weight
ParachainBlockMaxWeight(p) == p.max_extrinsic_weight

\* a faulty block_max_weight, one above the extrinsic's limit
BlockMaxWeightAboveLimit(c) ==
    1 + (IF c.variant = "Wasm" THEN c.inner.max_extrinsic_weight ELSE c.max_extrinsic_weight)

\* AnyChain::block_max_weight
block_max_weight(c) ==
    IF c.variant = "Wasm" THEN ParachainBlockMaxWeight(c.inner) ELSE ParachainBlockMaxWeight(c)

\* the weight the runtime charges for one message of ibc.deliver
MsgWeight(m) == IF m.type_url = UPDATE_CLIENT_TYPE_URL THEN 2 ELSE 1

RECURSIVE SumWeights(_)
SumWeights(msgs) == IF msgs = << >> THEN 0 ELSE MsgWeight(Head(msgs)) + SumWeights(Tail(msgs))

\* ParachainClient::estimate_weight: the dispatch weight of ibc.deliver(messages)
ParachainEstimateWeight(p, msgs) == SumWeights(msgs)

\* AnyChain::estimate_weight
estimate_weight(c, msgs) ==
    IF c.variant = "Wasm" THEN ParachainEstimateWeight(c.inner, msgs)
    ELSE ParachainEstimateWeight(c, msgs)

\* AnyClientMessage::wasm
WasmClientMessage(client_message) == [variant |-> "Wasm", inner |-> client_message]

\* AnyClientState::wasm
WasmClientState(client_state, code_id) ==
    [variant |-> "Wasm", inner |-> client_state, code_id |-> code_id]

\* a faulty AnyConsensusState::wasm: the wrapped state is left at height 0
WasmConsensusStateAtZero(consensus_state, code_id, height) ==
    [variant |-> "Wasm", inner |-> consensus_state, code_id |-> code_id, height |-> 0]

\* AnyConsensusState::wasm
WasmConsensusState(consensus_state, code_id, height) ==
    [variant |-> "Wasm", inner |-> consensus_state, code_id |-> code_id, height |-> height]

\* wrap_any_msg_into_wasm
wrap_any_msg_into_wasm(msg, code_id) ==
    CASE msg.type_url = CREATE_CLIENT_TYPE_URL ->
            [msg EXCEPT !.consensus_state = WasmConsensusState(@, code_id, 1),
                        !.client_state = WasmClientState(@, code_id)]
      [] msg.type_url = CONN_OPEN_TRY_TYPE_URL -> msg
      [] msg.type_url = CONN_OPEN_ACK_TYPE_URL ->
            \* Option<AnyClientState> as a sequence of at most one element
            [msg EXCEPT !.client_state =
                [i \in 1..Len(@) |-> WasmClientState(@[i], code_id)]]
      [] msg.type_url = UPDATE_CLIENT_TYPE_URL ->
            [msg EXCEPT !.client_message = WasmClientMessage(@)]
      [] OTHER -> msg

\* a faulty submit, which loses the first message of the extrinsic
ParachainSubmitDropsFirst(p, messages) ==
    IF messages = << >> THEN << >> ELSE Tail(messages)

\* ParachainClient::submit: the messages of the ibc.deliver extrinsic, in order
ParachainSubmit(p, messages) == [i \in 1..Len(messages) |-> messages[i]]

\* a faulty submit, which hands the messages over in reverse
SubmitReversed(c, messages) ==
    [i \in 1..Len(messages) |-> messages[Len(messages) + 1 - i]]

\* AnyChain::submit: what reaches the chain's runtime
submit(c, messages) ==
    IF c.variant = "Wasm"
    THEN ParachainSubmit(c.inner,
            [i \in 1..Len(messages) |-> wrap_any_msg_into_wasm(messages[i], c.code_id)])
    ELSE ParachainSubmit(c, messages)

----------------------------------------------------------------------------
(* On-chain state and the GRANDPA light client's packet verification *)

ExpectedBlockTime == 1

\* ctx.block_delay: the connection's delay period in blocks of the host
block_delay(delay_period_time) ==
    (delay_period_time + ExpectedBlockTime - 1) \div ExpectedBlockTime

\* the consensus state a ledger stores for the counterparty's block `height`
ConsensusAt(l, height) == {cs \in l.consensus : cs.height = height}

\* ClientState::verify_height: the proof height is one the client has reached, and
\* the client is not frozen
verify_height(l, height) == height <= l.latest_height /\ ~l.frozen

\* ClientState::verify_delay_passed
ClientStateVerifyDelayPassed(current_timestamp, current_height, processed_time, processed_height, delay_period_time, delay_period_height) ==
    /\ current_timestamp >= processed_time + delay_period_time
    /\ current_height >= processed_height + delay_period_height

\* verify_delay_passed (client_def.rs): the delay is measured on the host, from the
\* host time and height at which the consensus state for `height` was stored
verify_delay_passed(l, height) ==
    \E cs \in ConsensusAt(l, height) :
        ClientStateVerifyDelayPassed(l.time, l.height, cs.processed_time,
                                     cs.processed_height, l.delay_period,
                                     block_delay(l.delay_period))

\* what a storage proof rooted at the counterparty's block `height` can show
CommitmentProved(remote, height, ch, seq) ==
    \E p \in remote.commitments : p.channel = ch /\ p.sequence = seq /\ p.at <= height

AckProved(remote, height, ch, seq) ==
    \E a \in remote.acks : a.channel = ch /\ a.sequence = seq /\ a.at <= height

ReceiptAbsenceProved(remote, height, ch, seq) ==
    ~\E r \in remote.receipts : r.channel = ch /\ r.sequence = seq /\ r.at <= height

\* GrandpaClient::verify_packet_data
verify_packet_data(l, remote, height, ch, seq) ==
    /\ verify_height(l, height)
    /\ verify_delay_passed(l, height)
    /\ CommitmentProved(remote, height, ch, seq)

\* GrandpaClient::verify_packet_acknowledgement
verify_packet_acknowledgement(l, remote, height, ch, seq) ==
    /\ verify_height(l, height)
    /\ verify_delay_passed(l, height)
    /\ AckProved(remote, height, ch, seq)

\* GrandpaClient::verify_packet_receipt_absence
verify_packet_receipt_absence(l, remote, height, ch, seq) ==
    /\ verify_height(l, height)
    /\ verify_delay_passed(l, height)
    /\ ReceiptAbsenceProved(remote, height, ch, seq)

\* a packet has timed out against a height and a timestamp of the receiving chain
TimedOut(p, height, timestamp) ==
    \/ (p.timeout_height # NoTimeout /\ height >= p.timeout_height)
    \/ (p.timeout_timestamp # NoTimeout /\ timestamp >= p.timeout_timestamp)

\* the packet of an outstanding commitment
CommittedPacket(l, ch, seq) ==
    CHOOSE p \in l.commitments : p.channel = ch /\ p.sequence = seq

HasCommitment(l, ch, seq) == \E p \in l.commitments : p.channel = ch /\ p.sequence = seq

HasReceipt(l, ch, seq) == \E r \in l.receipts : r.channel = ch /\ r.sequence = seq

\* a client message that reports misbehaviour carries two finality proofs
IsMisbehaviour(client_message) == "first_finality_proof" \in DOMAIN client_message

\* GrandpaClient::check_for_misbehaviour, on chain: todo!(), it panics when called
ClientDefCheckForMisbehaviour(client_state, client_message) == "Panic"

\* GrandpaClient::update_state_on_misbehaviour: todo!(), it panics when called
update_state_on_misbehaviour(client_state, client_message) == "Panic"

\* the on-chain handling of a misbehaviour report: the client definition decides;
\* a transaction whose handler panics is rolled back and writes nothing
ExecMisbehaviour(l, client_message) ==
    LET found == ClientDefCheckForMisbehaviour(l, client_message)
        frozen == update_state_on_misbehaviour(l, client_message)
    IN  IF found = "Panic" \/ frozen = "Panic" THEN l ELSE frozen

\* the on-chain handler of MsgUpdateClient: stores the consensus state with the host
\* time and height at which it was processed; a chain that hosts the meta-client
\* accepts only wrapped client messages
ExecUpdateClient(l, remote, m) ==
    LET wrapped == m.client_message.variant = "Wasm"
        header == IF wrapped THEN m.client_message.inner ELSE m.client_message
    IN  IF wrapped # l.wasm_host \/ l.frozen THEN l
        ELSE IF IsMisbehaviour(header) THEN ExecMisbehaviour(l, header)
        ELSE IF ConsensusAt(l, header.height) # {} THEN l
        ELSE [l EXCEPT !.consensus = @ \cup {[height |-> header.height,
                                              timestamp |-> header.timestamp,
                                              processed_time |-> l.time,
                                              processed_height |-> l.height]},
                       !.latest_height = Max(@, header.height)]

\* a faulty handler of MsgRecvPacket, which does not look for the receipt
RecvPacketAcceptedAgain(l, remote, m) ==
    verify_packet_data(l, remote, m.proof_height, m.channel, m.sequence)

\* whether the on-chain handler of MsgRecvPacket accepts: proof, no receipt yet,
\* not timed out on the receiving chain
RecvPacketAccepted(l, remote, m) ==
    /\ verify_packet_data(l, remote, m.proof_height, m.channel, m.sequence)
    /\ ~HasReceipt(l, m.channel, m.sequence)
    /\ ~TimedOut(CommittedPacket(remote, m.channel, m.sequence), l.height, l.time)

\* the on-chain handler of MsgRecvPacket: writes the receipt and the acknowledgement
ExecRecvPacket(l, remote, m) ==
    IF ~RecvPacketAccepted(l, remote, m) THEN l
    ELSE [l EXCEPT !.receipts = @ \cup {[channel |-> m.channel, port |-> m.port,
                                         sequence |-> m.sequence, at |-> l.height]},
                   !.acks = @ \cup {[channel |-> m.channel, port |-> m.port,
                                     sequence |-> m.sequence, at |-> l.height]},
                   !.received[<<m.channel, m.sequence>>] = Min(@ + 1, 2)]

\* the on-chain handler of MsgAcknowledgement: clears the commitment
ExecAcknowledgement(l, remote, m) ==
    IF /\ HasCommitment(l, m.channel, m.sequence)
       /\ verify_packet_acknowledgement(l, remote, m.proof_height, m.channel, m.sequence)
    THEN [l EXCEPT !.commitments = @ \ {CommittedPacket(l, m.channel, m.sequence)},
                   !.acknowledged = @ \cup {<<m.channel, m.sequence>>}]
    ELSE l

\* the on-chain handler of MsgTimeout: the packet timed out at the proof height and
\* was not received by then; clears the commitment
ExecTimeout(l, remote, m) ==
    IF /\ HasCommitment(l, m.channel, m.sequence)
       /\ verify_packet_receipt_absence(l, remote, m.proof_height, m.channel, m.sequence)
       /\ \E cs \in ConsensusAt(l, m.proof_height) :
             TimedOut(CommittedPacket(l, m.channel, m.sequence), cs.height, cs.timestamp)
    THEN [l EXCEPT !.commitments = @ \ {CommittedPacket(l, m.channel, m.sequence)},
                   !.timed_out = @ \cup {<<m.channel, m.sequence>>}]
    ELSE l

\* ibc.deliver routes one message; a rejected message leaves the state as it was
ExecMsg(l, remote, m) ==
    CASE m.type_url = UPDATE_CLIENT_TYPE_URL -> ExecUpdateClient(l, remote, m)
      [] m.type_url = RECV_PACKET_TYPE_URL -> ExecRecvPacket(l, remote, m)
      [] m.type_url = ACK_PACKET_TYPE_URL -> ExecAcknowledgement(l, remote, m)
      [] m.type_url = TIMEOUT_TYPE_URL -> ExecTimeout(l, remote, m)
      [] OTHER -> l

RECURSIVE ExecAll(_, _, _)
\* ibc.deliver(messages): the messages are routed in order
ExecAll(l, remote, msgs) ==
    IF msgs = << >> THEN l ELSE ExecAll(ExecMsg(l, remote, Head(msgs)), remote, Tail(msgs))

\* the time of the last block of the model's horizon: blocks are one or two time
\* units apart, and the last one is as late as a block of its number can be
MaxTime == 2 * MaxHeight - 1

\* a new block of the chain: one block later, `dt` later. The chain stops at block
\* MaxHeight (the cap of the model); transactions sent to it then run in that block
NextBlock(l, dt) ==
    IF l.height >= MaxHeight THEN l
    ELSE IF l.height + 1 = MaxHeight THEN [l EXCEPT !.height = MaxHeight, !.time = MaxTime]
    ELSE [l EXCEPT !.height = @ + 1, !.time = @ + dt]

----------------------------------------------------------------------------
(* Queries of the chain capability (the channel ends of one channel carry the same
   identifier on both chains) *)

\* ParachainClient::query_packet_commitments: sequences with a commitment at `at`
ParachainQueryPacketCommitments(p, at, ch, port) ==
    {x.sequence : x \in {y \in ledger[p.name].commitments :
                            y.channel = ch /\ y.port = port /\ y.at <= at}}

\* ParachainClient::query_packet_acknowledgements: sequences acknowledged at `at`
ParachainQueryPacketAcknowledgements(p, at, ch, port) ==
    {x.sequence : x \in {y \in ledger[p.name].acks :
                            y.channel = ch /\ y.port = port /\ y.at <= at}}

\* a faulty node, which answers that none of `seqs` has been received
ParachainQueryUnreceivedPacketsBlind(p, at, ch, port, seqs) == seqs

\* ParachainClient::query_unreceived_packets: those of `seqs` without a receipt
ParachainQueryUnreceivedPackets(p, at, ch, port, seqs) ==
    {q \in seqs : ~\E r \in ledger[p.name].receipts :
                        r.channel = ch /\ r.port = port /\ r.sequence = q /\ r.at <= at}

\* ParachainClient::query_unreceived_acknowledgements: those of `seqs` whose packet
\* commitment is still outstanding
ParachainQueryUnreceivedAcknowledgements(p, at, ch, port, seqs) ==
    {q \in seqs : HasCommitment(ledger[p.name], ch, q)}

\* ParachainClient::query_send_packets: the packets sent with these sequences
ParachainQuerySendPackets(p, ch, port, seqs) ==
    {x \in ledger[p.name].commitments : x.channel = ch /\ x.port = port /\ x.sequence \in seqs}

\* ParachainClient::latest_height_and_timestamp
ParachainLatestHeightAndTimestamp(p) ==
    [height |-> ledger[p.name].height, timestamp |-> ledger[p.name].time]

\* a faulty query_packet_commitments, which reports only the commitments written in
\* the block `at`
QueryPacketCommitmentsNew(c, at, ch, port) ==
    {x.sequence : x \in {y \in ledger[IF c.variant = "Wasm" THEN c.inner.name ELSE c.name].commitments :
                            y.channel = ch /\ y.port = port /\ y.at = at}}

\* AnyChain::query_packet_commitments
query_packet_commitments(c, at, ch, port) ==
    IF c.variant = "Wasm" THEN ParachainQueryPacketCommitments(c.inner, at, ch, port)
    ELSE ParachainQueryPacketCommitments(c, at, ch, port)

\* a faulty query_packet_acknowledgements, which finds none
QueryPacketAcknowledgementsNone(c, at, ch, port) == {}

\* AnyChain::query_packet_acknowledgements
query_packet_acknowledgements(c, at, ch, port) ==
    IF c.variant = "Wasm" THEN ParachainQueryPacketAcknowledgements(c.inner, at, ch, port)
    ELSE ParachainQueryPacketAcknowledgements(c, at, ch, port)

\* a faulty query_unreceived_packets, which reports every sequence as unreceived
QueryUnreceivedPacketsAll(c, at, ch, port, seqs) == seqs

\* AnyChain::query_unreceived_packets
query_unreceived_packets(c, at, ch, port, seqs) ==
    IF c.variant = "Wasm" THEN ParachainQueryUnreceivedPackets(c.inner, at, ch, port, seqs)
    ELSE ParachainQueryUnreceivedPackets(c, at, ch, port, seqs)

\* AnyChain::query_unreceived_acknowledgements
query_unreceived_acknowledgements(c, at, ch, port, seqs) ==
    IF c.variant = "Wasm"
    THEN ParachainQueryUnreceivedAcknowledgements(c.inner, at, ch, port, seqs)
    ELSE ParachainQueryUnreceivedAcknowledgements(c, at, ch, port, seqs)

\* a faulty query_send_packets, which loads no packet
QuerySendPacketsNone(c, ch, port, seqs) == {}

\* AnyChain::query_send_packets
query_send_packets(c, ch, port, seqs) ==
    IF c.variant = "Wasm" THEN ParachainQuerySendPackets(c.inner, ch, port, seqs)
    ELSE ParachainQuerySendPackets(c, ch, port, seqs)

\* a faulty latest_height_and_timestamp, which runs ahead of the chain
LatestHeightAndTimestampAhead(c) == [height |-> MaxHeight, timestamp |-> MaxTime]

\* AnyChain::latest_height_and_timestamp
latest_height_and_timestamp(c) ==
    IF c.variant = "Wasm" THEN ParachainLatestHeightAndTimestamp(c.inner)
    ELSE ParachainLatestHeightAndTimestamp(c)

\* AnyChain::expected_block_time
expected_block_time(c) == ExpectedBlockTime

\* AnyChain::query_connection_end: the delay period of the connection
query_connection_delay(c) == ledger[name(c)].delay_period

----------------------------------------------------------------------------
(* The relay engine: packet scanner, message builder, pipeline, submitter *)

\* the connection delay has elapsed on the destination for a proof at source height
\* `h` whose header carries the timestamp `t`
ConnectionDelayElapsed(delay_time, delay_blocks, h, t, current_height, current_time) ==
    /\ current_height >= h + delay_blocks
    /\ current_time >= t + delay_time

\* the packets of `packets` with these sequences, as messages in ascending sequence
PacketMsgs(url, packets, proof_height, signer) ==
    LET seqs == Ascending({p.sequence : p \in packets})
    IN  [i \in 1..Len(seqs) |->
            PacketMsg(url, CHOOSE p \in packets : p.sequence = seqs[i], proof_height, signer)]

\* what the scanner reads for one whitelisted channel of the source at the finality
\* event `f`, against the destination's latest view
ScanView(source, sink, f, ch, port) ==
    LET commitments == query_packet_commitments(source, f.height, ch, port)
        latest == latest_height_and_timestamp(sink)
        unreceived == query_unreceived_packets(sink, latest.height, ch, port, commitments)
        acks == query_packet_acknowledgements(source, f.height, ch, port)
    IN  [channel |-> ch, port |-> port, latest |-> latest,
         packets |-> query_send_packets(source, ch, port, unreceived),
         unreceived_acks |->
            query_unreceived_acknowledgements(sink, latest.height, ch, port, acks)]

\* the unreceived packets of a view that have timed out on the destination
TimedOutPackets(view) ==
    {p \in view.packets : TimedOut(p, view.latest.height, view.latest.timestamp)}

\* the unreceived packets of a view that are ready to be received: not timed out, and
\* the connection delay has elapsed on the destination
ReadyPackets(view, f, delay_time, delay_blocks) ==
    {p \in view.packets \ TimedOutPackets(view) :
        ConnectionDelayElapsed(delay_time, delay_blocks, f.height, f.timestamp,
                               view.latest.height, view.latest.timestamp)}

\* the packet messages of one channel: Timeouts, Acknowledgements, Receives, each in
\* ascending sequence. A Timeout goes to the source with a non-receipt proof from
\* the destination; an Acknowledgement and a Receive go to the destination with a
\* proof from the source at the finalized height
ChannelMessages(source, sink, f, view) ==
    LET delay_time == query_connection_delay(sink)
        delay_blocks == (delay_time + expected_block_time(sink) - 1)
                            \div expected_block_time(sink)
        acked == {[channel |-> view.channel, port |-> view.port, sequence |-> q] :
                    q \in view.unreceived_acks}
    IN  PacketMsgs(TIMEOUT_TYPE_URL, TimedOutPackets(view), view.latest.height,
                   account_id(source))
        \o PacketMsgs(ACK_PACKET_TYPE_URL, acked, f.height, account_id(sink))
        \o PacketMsgs(RECV_PACKET_TYPE_URL, ReadyPackets(view, f, delay_time, delay_blocks),
                      f.height, account_id(sink))

\* the packet scanner: every (channel, port) of the source's whitelist, in order
ScanPackets(source, sink, f) ==
    LET whitelist == channel_whitelist(source)
    IN  Flatten([i \in 1..Len(whitelist) |->
            ChannelMessages(source, sink, f,
                ScanView(source, sink, f, whitelist[i][1], whitelist[i][2]))])

\* the messages of a list that go to the chain whose signer is `signer`
MessagesFor(msgs, signer) == SelectSeq(msgs, LAMBDA m : m.signer = signer)

\* the update type of a finality event: an update is mandatory when there are
\* packets to relay (no authority-set rotation occurs within the model's horizon)
UpdateType(packet_msgs) == IF packet_msgs # << >> THEN "Mandatory" ELSE "Optional"

\* a faulty pipeline, which skips every update that has no packet message with it
SinkMessagesSkipMandatory(source, sink, f, update_type, skip_optional, packet_msgs) ==
    IF skip_optional /\ packet_msgs = << >>
    THEN << >>
    ELSE <<MsgUpdateAnyClient(client_id(source), f, account_id(sink))>>
         \o MessagesFor(packet_msgs, account_id(sink))

\* the pipeline's message list for the destination: the client update first, then
\* the packet messages; nothing when an optional update is skipped
SinkMessages(source, sink, f, update_type, skip_optional, packet_msgs) ==
    IF update_type = "Optional" /\ skip_optional /\ packet_msgs = << >>
    THEN << >>
    ELSE <<MsgUpdateAnyClient(client_id(source), f, account_id(sink))>>
         \o MessagesFor(packet_msgs, account_id(sink))

RECURSIVE GreedySplit(_, _, _)
\* maximal prefixes whose estimated weight stays within the cap, in order; `batch`
\* is the prefix being filled
GreedySplit(chain, msgs, batch) ==
    IF msgs = << >> THEN (IF batch = << >> THEN << >> ELSE <<batch>>)
    ELSE IF batch = << >>
            \/ estimate_weight(chain, Append(batch, Head(msgs))) <= block_max_weight(chain)
         THEN GreedySplit(chain, Tail(msgs), Append(batch, Head(msgs)))
         ELSE <<batch>> \o GreedySplit(chain, msgs, << >>)

\* the submitter: one transaction when the whole list fits, batches otherwise
Batches(chain, msgs) ==
    IF msgs = << >> THEN << >>
    ELSE IF estimate_weight(chain, msgs) <= block_max_weight(chain) THEN <<msgs>>
    ELSE GreedySplit(chain, msgs, << >>)

----------------------------------------------------------------------------
(* The two chains and the relay between them *)

\* the channel whitelist both handles are configured with (parachain_parachain.rs:
\* set_channel_whitelist before the relay is spawned); channel-1 is open but not listed
ConfiguredWhitelist == <<<<"channel-0", Port>>>>

\* the id, on the counterparty, of the light client that tracks this chain
ConfiguredClientId == [c \in Chains |-> IF c = "A" THEN "08-wasm-0" ELSE "10-grandpa-0"]

\* max_extrinsic_weight of each chain: a client update and one packet message fit in
\* one extrinsic of B, a client update alone fills one of A
ConfiguredWeight == [c \in Chains |-> IF c = "A" THEN 2 ELSE 3]

\* skip_optional_client_updates of the relayer's configuration
SkipOptionalClientUpdates == TRUE

\* the chains whose applications send packets
Senders == {"A"}

\* (timeout_height, timeout_timestamp) an application may put on a packet
TimeoutChoices == {<<NoTimeout, NoTimeout>>, <<2, NoTimeout>>, <<NoTimeout, 3>>}

\* the sequence numbers of the model
SeqNos == 1..Max(MaxSeq, ScanSeqs)

InitLedger(wasm_host, delay, sent) ==
    [height |-> 1, time |-> 1, delay_period |-> delay, wasm_host |-> wasm_host,
     commitments |-> sent, receipts |-> {}, acks |-> {},
     consensus |-> {[height |-> 1, timestamp |-> 1, processed_time |-> 1,
                     processed_height |-> 1]},
     latest_height |-> 1, frozen |-> FALSE,
     received |-> [k \in Channels \X SeqNos |-> 0],
     acknowledged |-> {}, timed_out |-> {},
     next_sequence_send |-> [ch \in Channels |->
                                1 + Cardinality({p \in sent : p.channel = ch})]]

\* a packet sent on channel-1, which no handle lists, before the relay was started
UnlistedPacket ==
    [channel |-> "channel-1", port |-> Port, sequence |-> 1, timeout_height |-> NoTimeout,
     timeout_timestamp |-> NoTimeout, at |-> 1]

\* nothing delivered yet: `updated` is the highest height a delivered client update
\* proved, `recvs` counts the receives delivered per (channel, sequence), up to two
NoLog == [updated |-> 0, recvs |-> [k \in Channels \X SeqNos |-> 0]]

\* no submit call is outstanding, no event awaits the auxiliary tasks, no justification
\* subscription is open and no bootstrap helper runs
AuxIdle ==
    /\ inflight = [c \in Chains |-> {}]
    /\ ibc_events = [c \in Chains |-> << >>]
    /\ tasks = [c \in Chains |-> "running"]
    /\ justifications = << >>
    /\ boot = [pc |-> "idle"]

InitRelay(delay) ==
    /\ chains = [c \in Chains |->
            IF c = "B"
            THEN WasmChain(ParachainClient(c, ConfiguredClientId[c], ConfiguredWhitelist,
                                           ConfiguredWeight[c]),
                           "code-1", "10-grandpa")
            ELSE ParachainClient(c, ConfiguredClientId[c], ConfiguredWhitelist,
                                 ConfiguredWeight[c])]
    /\ ledger = [c \in Chains |->
            InitLedger(c = "B", delay, IF c \in Senders THEN {UnlistedPacket} ELSE {})]
    /\ finality = [c \in Chains |-> << >>]
    /\ queue = [c \in Chains |-> << >>]
    /\ log = [c \in Chains |-> NoLog]
    /\ list = << >>
    /\ batches = << >>
    /\ AuxIdle

Init == \E delay \in 0..MaxDelay : InitRelay(delay)

\* the finality stream of a chain after the block `l` is finalized: the stream
\* downsamples (the newest event replaces the last buffered one) but never reorders
Notify(events, l) ==
    LET f == [height |-> l.height, timestamp |-> l.time]
    IN  IF Len(events) < MaxQueue THEN Append(events, f)
        ELSE [events EXCEPT ![Len(events)] = f]

\* the chain produces a block with no IBC transaction in it, on time or late
ProduceBlock(X) ==
    \E dt \in {ExpectedBlockTime, 2 * ExpectedBlockTime} :
        LET l == NextBlock(ledger[X], dt)
        IN  /\ ledger' = [ledger EXCEPT ![X] = l]
            /\ finality' = [finality EXCEPT ![X] = Notify(@, l)]
            /\ UNCHANGED <<chains, queue, log, list, batches, aux>>

\* an application on X sends a packet on the whitelisted channel: the commitment is
\* written in a new block
SendPacket(X) ==
    \E t \in TimeoutChoices :
        LET l == NextBlock(ledger[X], ExpectedBlockTime)
            ch == ConfiguredWhitelist[1][1]
            seq == l.next_sequence_send[ch]
        IN  /\ X \in Senders
            /\ seq <= MaxSeq
            /\ ledger' = [ledger EXCEPT ![X] =
                    [l EXCEPT !.commitments = @ \cup
                                {[channel |-> ch, port |-> Port, sequence |-> seq,
                                  timeout_height |-> t[1], timeout_timestamp |-> t[2],
                                  at |-> l.height]},
                              !.next_sequence_send[ch] = seq + 1]]
            /\ finality' = [finality EXCEPT ![X] = Notify(@, l)]
            /\ UNCHANGED <<chains, queue, log, list, batches, aux>>

\* the height a delivered client update proves (the runtime unwraps a meta payload)
UpdateHeight(m) ==
    IF m.client_message.variant = "Wasm" THEN m.client_message.inner.height
    ELSE m.client_message.height

\* the batches still queued for X that the task whose source is S handed over: a task
\* sends Timeouts back to its own source and everything else to its sink
PendingFrom(S, X) ==
    Cardinality({i \in 1..Len(queue[X]) :
                    (queue[X][i][1].type_url \in {TIMEOUT_TYPE_URL, TIMEOUT_ON_CLOSE_TYPE_URL}) <=> (S = X)})

\* the task whose source is S can start an iteration: a finality event of S is
\* waiting, and fewer than MaxPending of the batches the task handed over are still
\* queued for either chain
RelayEnabled(S) ==
    /\ finality[S] # << >>
    /\ \A X \in Chains : PendingFrom(S, X) < MaxPending

\* one iteration of the pipeline of the task whose source is S, for the next finality
\* event of S: build the lists, split them, queue the batches per destination. A
\* new iteration may start while earlier batches are still queued. The source
\* reports the update as mandatory when `rotation` (the event rotates the authority
\* set) or when there are packets to relay; `skip_optional` is the configuration
Iterate(S, rotation, skip_optional) ==
    /\ RelayEnabled(S)
    /\ LET D == Other(S)
           source == chains[S]
           sink == chains[D]
           f == Head(finality[S])
           packet_msgs == ScanPackets(source, sink, f)
           update_type == IF rotation THEN "Mandatory" ELSE UpdateType(packet_msgs)
           to_sink == SinkMessages(source, sink, f, update_type, skip_optional, packet_msgs)
           to_source == MessagesFor(packet_msgs, account_id(source))
       IN  /\ finality' = [finality EXCEPT ![S] = Tail(@)]
           /\ queue' = [queue EXCEPT ![D] = @ \o Batches(sink, to_sink),
                                     ![S] = @ \o Batches(source, to_source)]
           /\ UNCHANGED <<chains, ledger, log, batches, aux>>

\* an iteration within the model's horizon of the relay: no authority-set rotation
Relay(S) == Iterate(S, FALSE, SkipOptionalClientUpdates) /\ UNCHANGED list

\* what the log of X remembers once the batch `delivered` ran
Delivered(lg, delivered) ==
    [updated |-> Max(lg.updated,
                     SetMax({0} \cup {UpdateHeight(m) :
                                m \in {x \in Range(delivered) :
                                            x.type_url = UPDATE_CLIENT_TYPE_URL}})),
     recvs |-> [k \in DOMAIN lg.recvs |->
                    IF \E i \in 1..Len(delivered) :
                            /\ delivered[i].type_url = RECV_PACKET_TYPE_URL
                            /\ k = <<delivered[i].channel, delivered[i].sequence>>
                    THEN Min(lg.recvs[k] + 1, 2) ELSE lg.recvs[k]]]

\* the submitter delivers the oldest queued batch to X: one transaction, one block.
\* Whatever the runtime decides on each message, the batch leaves the queue
Deliver(X) ==
        LET l == NextBlock(ledger[X], ExpectedBlockTime)
            delivered == submit(chains[X], Head(queue[X]))
        IN  /\ queue[X] # << >>
            /\ queue' = [queue EXCEPT ![X] = Tail(@)]
            /\ ledger' = [ledger EXCEPT ![X] = ExecAll(l, ledger[Other(X)], delivered)]
            /\ finality' = [finality EXCEPT ![X] = Notify(@, l)]
            /\ log' = [log EXCEPT ![X] = Delivered(@, delivered)]
            /\ UNCHANGED <<chains, batches, aux>>

Submit(X) == Deliver(X) /\ UNCHANGED list

\* another relayer delivers to X a client update for the counterparty's latest block
\* and the receive of one packet committed there
OtherRelayer(X) ==
    \E p \in ledger[Other(X)].commitments :
        LET S == Other(X)
            l == NextBlock(ledger[X], ExpectedBlockTime)
            f == [height |-> ledger[S].height, timestamp |-> ledger[S].time]
            msgs == <<MsgUpdateAnyClient(ConfiguredClientId[S], f, <<"signer", "other">>),
                      PacketMsg(RECV_PACKET_TYPE_URL, p, f.height, <<"signer", "other">>)>>
        IN  /\ ~HasReceipt(ledger[X], p.channel, p.sequence)
            /\ ledger' = [ledger EXCEPT ![X] = ExecAll(l, ledger[S], submit(chains[X], msgs))]
            /\ finality' = [finality EXCEPT ![X] = Notify(@, l)]
            /\ UNCHANGED <<chains, queue, log, list, batches, aux>>

Next ==
    \/ \E X \in Chains : ProduceBlock(X)
    \/ \E X \in Chains : SendPacket(X)
    \/ \E S \in Chains : Relay(S)
    \/ \E X \in Chains : Submit(X)
    \/ \E X \in Chains : OtherRelayer(X)

Spec == Init /\ [][Next]_vars

----------------------------------------------------------------------------
(* The relay under fairness: both chains keep producing blocks, both relay tasks and
   the submitter keep running; the connection has no delay *)

\* this step is one pipeline iteration of the task whose source is S: only Relay(S)
\* takes the oldest event off the finality stream of S
IsRelayStep(S) == finality[S] # << >> /\ finality'[S] = Tail(finality[S])

\* this step is the submitter delivering the oldest batch queued for X: only
\* Submit(X) takes a batch off that queue
IsSubmitStep(X) == queue[X] # << >> /\ queue'[X] = Tail(queue[X])

\* weak fairness of the blocks of both chains, of both relay tasks and of the
\* submitter to both chains. For Relay(X) and Submit(X) the condition WF_vars is
\* written out: Relay(X) is enabled exactly when RelayEnabled(X), Submit(X) exactly
\* when a batch is queued for X, and each changes the state whenever it is taken
Fairness ==
    \A X \in Chains :
        /\ WF_vars(ProduceBlock(X))
        /\ ([]<>~RelayEnabled(X)) \/ ([]<><<IsRelayStep(X)>>_vars)
        /\ ([]<>(queue[X] = << >>)) \/ ([]<><<IsSubmitStep(X)>>_vars)

SpecLive == InitRelay(0) /\ [][Next]_vars /\ Fairness

----------------------------------------------------------------------------
(* The scanner and the pipeline started on a given state of the two chains *)

\* the outstanding packet with this sequence and this timeout, sent in block 1
SentPacket(seq, t) ==
    [channel |-> ConfiguredWhitelist[1][1], port |-> Port, sequence |-> seq,
     timeout_height |-> t[1], timeout_timestamp |-> t[2], at |-> 1]

\* the receipt (or the acknowledgement) of a packet received in block 1
ReceivedPacket(seq) ==
    [channel |-> ConfiguredWhitelist[1][1], port |-> Port, sequence |-> seq, at |-> 1]

\* the ledger `l` with the packets of the whitelisted channel with these sequences
\* received and acknowledged in block 1
Received(l, got) ==
    [l EXCEPT !.receipts = {ReceivedPacket(q) : q \in got},
              !.acks = {ReceivedPacket(q) : q \in got},
              !.received = [k \in DOMAIN @ |->
                                IF k[1] = ConfiguredWhitelist[1][1] /\ k[2] \in got
                                THEN 1 ELSE 0]]

\* chain A at block `h` with these commitments outstanding, chain B at block `hB`
\* and time `tB` with the packets `got` received; B has the packets `back`
\* outstanding, which A has received; each chain has one finality event to relay
InitScanned(delay, h, sent, hB, tB, got, back) ==
    /\ chains = [c \in Chains |->
            IF c = "B"
            THEN WasmChain(ParachainClient(c, ConfiguredClientId[c], ConfiguredWhitelist,
                                           ConfiguredWeight[c]),
                           "code-1", "10-grandpa")
            ELSE ParachainClient(c, ConfiguredClientId[c], ConfiguredWhitelist,
                                 ConfiguredWeight[c])]
    /\ ledger = [c \in Chains |->
            IF c = "A"
            THEN [Received(InitLedger(FALSE, delay,
                                      {SentPacket(q, sent[q]) : q \in DOMAIN sent}), back)
                    EXCEPT !.height = h, !.time = h]
            ELSE [Received(InitLedger(TRUE, delay,
                                      {SentPacket(q, <<NoTimeout, NoTimeout>>) : q \in back}),
                           got)
                    EXCEPT !.height = hB, !.time = tB]]
    /\ finality = [c \in Chains |->
            <<[height |-> ledger[c].height, timestamp |-> ledger[c].time]>>]
    /\ queue = [c \in Chains |-> << >>]
    /\ log = [c \in Chains |-> NoLog]

InitScan ==
    \E delay \in 0..MaxDelay, h \in 1..MaxHeight, hB \in 1..MaxHeight, dt \in {0, 1},
       have \in SUBSET (1..ScanSeqs), got \in SUBSET (1..ScanSeqs), back \in SUBSET {1} :
        \E sent \in [have -> TimeoutChoices] :
            /\ InitScanned(delay, h, sent, hB, hB + dt, got, back)
            /\ list = << >>
            /\ batches = << >>
            /\ AuxIdle

NextScan ==
    \/ \E S \in Chains : Relay(S)
    \/ \E X \in Chains : Submit(X)

SpecScan == InitScan /\ [][NextScan]_vars

----------------------------------------------------------------------------
(* The submitter on its own: a chain handle and a message list *)

SubmitAlphabet ==
    {MsgUpdateAnyClient("10-grandpa-0", [height |-> 2, timestamp |-> 2], <<"signer", "X">>),
     PacketMsg(RECV_PACKET_TYPE_URL, SentPacket(1, <<NoTimeout, NoTimeout>>), 2,
               <<"signer", "X">>),
     PacketMsg(ACK_PACKET_TYPE_URL, SentPacket(2, <<NoTimeout, NoTimeout>>), 2,
               <<"signer", "X">>)}

\* the heaviest single message
MaxMsgWeight == SetMax({MsgWeight(m) : m \in SubmitAlphabet})

\* the handles the submitter is tried with: a parachain and a wrapped parachain whose
\* extrinsic holds at least the heaviest single message
SubmitHandles ==
    UNION {{ParachainClient("X", "10-grandpa-0", ConfiguredWhitelist, w),
            WasmChain(ParachainClient("X", "10-grandpa-0", ConfiguredWhitelist, w),
                      "code-1", "10-grandpa")} : w \in MaxMsgWeight..MaxWeight}

InitSubmit ==
    /\ InitScanned(0, 1, << >>, 1, 1, {}, {})
    /\ \E n \in 0..MaxLen : \E msgs \in [1..n -> SubmitAlphabet], c \in SubmitHandles :
            list = [chain |-> c, msgs |-> msgs]
    /\ batches = << >>
    /\ AuxIdle

\* the submitter is handed the list
SubmitList ==
    /\ batches = << >>
    /\ list.msgs # << >>
    /\ batches' = Batches(list.chain, list.msgs)
    /\ UNCHANGED <<chains, ledger, finality, queue, log, list, aux>>

NextSubmit == SubmitList

SpecSubmit == InitSubmit /\ [][NextSubmit]_vars

----------------------------------------------------------------------------
(* What the properties speak of *)

\* the messages queued for X, as the runtime of X will receive them, in order
Pending(X) == Flatten([b \in 1..Len(queue[X]) |-> submit(chains[X], queue[X][b])])

IsUpdate(m) == m.type_url = UPDATE_CLIENT_TYPE_URL

IsRecv(m) == m.type_url = RECV_PACKET_TYPE_URL

IsAck(m) == m.type_url = ACK_PACKET_TYPE_URL

IsTimeout(m) == m.type_url = TIMEOUT_TYPE_URL

\* the messages a step adds to the queue of X, in order
Scheduled(X) == Flatten(SubSeq(queue'[X], Len(queue[X]) + 1, Len(queue'[X])))

\* the packets of S outstanding at the finality event `f` on a channel both handles
\* were configured with, and not received on the other chain
OutstandingUnreceived(S, f) ==
    {p \in ledger[S].commitments :
        /\ <<p.channel, p.port>> \in Range(ConfiguredWhitelist)
        /\ p.at <= f.height
        /\ ~HasReceipt(ledger[Other(S)], p.channel, p.sequence)}

HasMsg(msgs, url, p) ==
    \E i \in 1..Len(msgs) :
        /\ msgs[i].type_url = url
        /\ msgs[i].channel = p.channel
        /\ msgs[i].sequence = p.sequence

----------------------------------------------------------------------------
(* C1 *)

----------------------------------------------------------------------------
(* C2 *)

\* the messages queued for X as the submitter holds them, in order
Queued(X) == Flatten(queue[X])

----------------------------------------------------------------------------
(* C3 *)

\* the timestamps the destination X has, or is about to be given, for the
\* counterparty's block `h`
ProofTimestamps(X, h) ==
    {Queued(X)[i].client_message.timestamp :
        i \in {j \in 1..Len(Queued(X)) :
                IsUpdate(Queued(X)[j]) /\ Queued(X)[j].client_message.height = h}}
    \cup {cs.timestamp : cs \in ConsensusAt(ledger[X], h)}

\* C3: delay respect. For every Recv queued for a destination X with proof height h
\* (consensus state timestamp t) on a connection with delay period d, X's block
\* time is >= t + d and X's height is >= h + block_delay(d) already when the Recv
\* is queued, hence when it is submitted: a packet whose delay has not elapsed is
\* not queued.
DelayRespected ==
    \A X \in Chains : \A i \in 1..Len(Queued(X)) :
        IsRecv(Queued(X)[i]) =>
            LET h == Queued(X)[i].proof_height
                d == ledger[X].delay_period
            IN  /\ ledger[X].height >= h + (d + ExpectedBlockTime - 1) \div ExpectedBlockTime
                /\ \A t \in ProofTimestamps(X, h) : ledger[X].time >= t + d

\* a Recv is queued on a connection with a delay
DelayWitness ==
    \E X \in Chains : \E i \in 1..Len(Queued(X)) :
        /\ IsRecv(Queued(X)[i])
        /\ ledger[X].delay_period > 0
        /\ ProofTimestamps(X, Queued(X)[i].proof_height) # {}

----------------------------------------------------------------------------
(* C4 *)

\* the connection delay has elapsed on D for the finality event `f` of the source
DelayElapsedFor(D, f) ==
    ConnectionDelayElapsed(ledger[D].delay_period, block_delay(ledger[D].delay_period),
                           f.height, f.timestamp, ledger[D].height, ledger[D].time)

\* C4 as the claim states it: at a scan, an outstanding unreceived packet that has
\* timed out on D is scheduled as a Timeout to S and not as a Recv, and every other
\* one is scheduled as a Recv to D and not as a Timeout.
TimeoutSymmetryAsStated ==
    [][\A S \in Chains :
        IsRelayStep(S) =>
            \A p \in OutstandingUnreceived(S, Head(finality[S])) :
                IF TimedOut(p, ledger[Other(S)].height, ledger[Other(S)].time)
                THEN /\ HasMsg(Scheduled(S), TIMEOUT_TYPE_URL, p)
                     /\ ~HasMsg(Scheduled(Other(S)), RECV_PACKET_TYPE_URL, p)
                ELSE /\ HasMsg(Scheduled(Other(S)), RECV_PACKET_TYPE_URL, p)
                     /\ ~HasMsg(Scheduled(S), TIMEOUT_TYPE_URL, p)]_vars

\* C4, amended: timeout symmetry. At a scan, an outstanding unreceived packet that
\* has timed out on D (D's latest height >= its timeout height, or D's latest time
\* >= its timeout timestamp) is scheduled as a Timeout to S, with a proof at D's
\* latest height, and not as a Recv; every other one is never scheduled as a
\* Timeout, and is scheduled as a Recv to D exactly when the connection delay has
\* elapsed on D: until then it is deferred and nothing is scheduled for it.
TimeoutSymmetry ==
    [][\A S \in Chains :
        IsRelayStep(S) =>
            \A p \in OutstandingUnreceived(S, Head(finality[S])) :
                IF TimedOut(p, ledger[Other(S)].height, ledger[Other(S)].time)
                THEN /\ HasMsg(Scheduled(S), TIMEOUT_TYPE_URL, p)
                     /\ \A i \in 1..Len(Scheduled(S)) :
                            IsTimeout(Scheduled(S)[i]) =>
                                Scheduled(S)[i].proof_height = ledger[Other(S)].height
                     /\ ~HasMsg(Scheduled(Other(S)), RECV_PACKET_TYPE_URL, p)
                ELSE /\ ~HasMsg(Scheduled(S), TIMEOUT_TYPE_URL, p)
                     /\ HasMsg(Scheduled(Other(S)), RECV_PACKET_TYPE_URL, p)
                            <=> DelayElapsedFor(Other(S), Head(finality[S]))]_vars

\* a Timeout is queued for the source of a packet that the destination has not
\* received, while another packet of the channel is queued as a Recv
TimeoutWitness ==
    \E i \in 1..Len(Queued("A")), j \in 1..Len(Queued("B")) :
        /\ IsTimeout(Queued("A")[i])
        /\ IsRecv(Queued("B")[j])
        /\ Queued("A")[i].sequence # Queued("B")[j].sequence
        /\ ~HasReceipt(ledger["B"], Queued("A")[i].channel, Queued("A")[i].sequence)

----------------------------------------------------------------------------
(* C5 *)

\* C5: no duplicate receives. For every (channel, sequence), however many relayers
\* and relay iterations deliver a Recv for it, at most one Recv succeeds on the
\* destination: a later one is rejected by the chain, and changes nothing.
AtMostOneReceive ==
    \A X \in Chains : \A k \in DOMAIN ledger[X].received : ledger[X].received[k] <= 1

\* the engine delivered two Recvs of one packet, and one Recv of it succeeded
DuplicateReceiveWitness ==
    \E X \in Chains : \E k \in DOMAIN ledger[X].received :
        ledger[X].received[k] = 1 /\ log[X].recvs[k] = 2

----------------------------------------------------------------------------
(* C6 *)

\* C6 as the claim states it: no (channel, sequence) is submitted twice as a Recv to
\* one destination.
RecvSubmittedOnce ==
    \A X \in Chains : \A k \in DOMAIN log[X].recvs : log[X].recvs[k] <= 1

\* C6, amended: the destination's receipts gate resubmission. A pipeline iteration
\* schedules a Recv only for a (channel, sequence) that has no receipt on the
\* destination when it scans; a Recv submitted earlier that has not been executed
\* yet, or that the chain rejected, does not gate it.
RecvGatedByReceipt ==
    [][\A S \in Chains :
        IsRelayStep(S) =>
            \A i \in 1..Len(Scheduled(Other(S))) :
                IsRecv(Scheduled(Other(S))[i]) =>
                    ~HasReceipt(ledger[Other(S)], Scheduled(Other(S))[i].channel,
                                Scheduled(Other(S))[i].sequence)]_vars

\* a packet has been received on B and is not acknowledged on A yet, and a Recv of
\* another packet of the channel is queued for B
RecvGateWitness ==
    \E p \in ledger["A"].commitments : \E i \in 1..Len(Queued("B")) :
        /\ HasReceipt(ledger["B"], p.channel, p.sequence)
        /\ IsRecv(Queued("B")[i])
        /\ Queued("B")[i].channel = p.channel
        /\ Queued("B")[i].sequence # p.sequence
        /\ Queued("B")[i].proof_height >= p.at

----------------------------------------------------------------------------
(* C8 *)

\* C8: whenever a pipeline iteration of the task S -> D hands a message list to the
\* submitter for D, the first message of the list is the client update built from
\* the finality event (its height and timestamp), addressed to D's client of S and
\* signed for D, and no other message of the list is a client update: it precedes
\* every message whose proof is rooted at the newly proved height.
ClientUpdateFirst ==
    [][\A S \in Chains :
        (IsRelayStep(S) /\ Scheduled(Other(S)) # << >>) =>
            LET handed == Scheduled(Other(S))
                f == Head(finality[S])
            IN  /\ IsUpdate(handed[1])
                /\ handed[1].client_id = ConfiguredClientId[S]
                /\ handed[1].client_message.height = f.height
                /\ handed[1].client_message.timestamp = f.timestamp
                /\ handed[1].signer = <<"signer", Other(S)>>
                /\ \A i \in 2..Len(handed) :
                        /\ IsPacketMsg(handed[i])
                        /\ handed[i].proof_height = f.height]_vars

\* a queued batch starts with the client update and goes on with a packet message
\* whose proof is rooted at the height the update proves
ClientUpdateFirstWitness ==
    \E X \in Chains : \E b \in 1..Len(queue[X]) :
        /\ Len(queue[X][b]) >= 2
        /\ IsUpdate(queue[X][b][1])
        /\ IsPacketMsg(queue[X][b][2])
        /\ queue[X][b][2].proof_height = queue[X][b][1].client_message.height

----------------------------------------------------------------------------
(* C9 *)

\* the place of a packet message's category in a list
Rank(m) == IF IsTimeout(m) THEN 1 ELSE IF IsAck(m) THEN 2 ELSE 3

\* Timeouts, then Acknowledgements, then Receives within each channel, and strictly
\* ascending sequences within each category
Ordered(msgs) ==
    \A i \in 1..Len(msgs), j \in 1..Len(msgs) :
        (/\ i < j
         /\ IsPacketMsg(msgs[i])
         /\ IsPacketMsg(msgs[j])
         /\ msgs[i].channel = msgs[j].channel)
            => /\ Rank(msgs[i]) <= Rank(msgs[j])
               /\ Rank(msgs[i]) = Rank(msgs[j]) => msgs[i].sequence < msgs[j].sequence

\* C9: in every message list a pipeline iteration hands over for a chain, as
\* AnyChain::submit passes it on, the packet messages of one channel are in the
\* order Timeouts, Acknowledgements, Receives, and the sequences within each
\* category are strictly ascending.
PacketMessageOrder ==
    [][\A S \in Chains :
        IsRelayStep(S) =>
            \A X \in Chains : Ordered(submit(chains[X], Scheduled(X)))]_vars

\* one list queued for B holds an Acknowledgement, then the Receives of two packets
\* in ascending sequence: two categories, and two messages of one category
PacketMessageOrderWitness ==
    \E i \in 1..Len(Queued("B")), j \in 1..Len(Queued("B")), k \in 1..Len(Queued("B")) :
        /\ i < j /\ j < k
        /\ IsAck(Queued("B")[i])
        /\ IsRecv(Queued("B")[j])
        /\ IsRecv(Queued("B")[k])
        /\ Queued("B")[j].sequence < Queued("B")[k].sequence

----------------------------------------------------------------------------
(* C10 *)

\* the estimated weight of a batch, and the cap, read off the handle's configuration
WeightOf(msgs) == SumWeights(msgs)

CapOf(c) == IF c.variant = "Wasm" THEN c.inner.max_extrinsic_weight ELSE c.max_extrinsic_weight

----------------------------------------------------------------------------
(* C7 *)

\* the packet of the whitelisted channel with this sequence is outstanding on A
Sent(q) == HasCommitment(ledger["A"], ConfiguredWhitelist[1][1], q)

\* the round trip of the packet is complete: received and acknowledged on B, the
\* acknowledgement processed on A, A's commitment cleared
RoundTripDone(q) ==
    /\ HasReceipt(ledger["B"], ConfiguredWhitelist[1][1], q)
    /\ \E a \in ledger["B"].acks : a.channel = ConfiguredWhitelist[1][1] /\ a.sequence = q
    /\ <<ConfiguredWhitelist[1][1], q>> \in ledger["A"].acknowledged
    /\ ~HasCommitment(ledger["A"], ConfiguredWhitelist[1][1], q)

\* the packet was not relayed before its timeout: B has no receipt for it, and it has
\* timed out against B's latest block or its commitment was cleared by a Timeout
Lapsed(q) ==
    /\ ~HasReceipt(ledger["B"], ConfiguredWhitelist[1][1], q)
    /\ \/ ~HasCommitment(ledger["A"], ConfiguredWhitelist[1][1], q)
       \/ TimedOut(CommittedPacket(ledger["A"], ConfiguredWhitelist[1][1], q),
                   ledger["B"].height, ledger["B"].time)

----------------------------------------------------------------------------
(* The misbehaviour detector *)

\* the hash of the block S finalized at this number, and of a block forged there
RealHash(number) == <<"real", number>>

ForgedHash(number) == <<"forged", number>>

\* encoded bytes that decode to nothing
Undecodable == [garbage |-> TRUE]

Decodes(bytes) == "garbage" \notin DOMAIN bytes

\* an encoded GrandpaJustification whose commit targets this block
GrandpaJustification(hash, number) ==
    [commit |-> [target_hash |-> hash, target_number |-> number]]

\* FinalityProof { block, justification, unknown_headers }
FinalityProof(block, justification, unknown_headers) ==
    [block |-> block, justification |-> justification, unknown_headers |-> unknown_headers]

\* AnyClientMessage::Grandpa(ClientMessage::Header(header)) with its finality proof
GrandpaHeader(height, timestamp, finality_proof) ==
    [variant |-> "Grandpa", height |-> height, timestamp |-> timestamp,
     finality_proof |-> finality_proof]

IsHeader(client_message) ==
    client_message.variant = "Grandpa" /\ "finality_proof" \in DOMAIN client_message

\* a faulty report, which carries the trusted proof first
MisbehaviourSwapped(first, second) ==
    [variant |-> "Grandpa", first_finality_proof |-> second, second_finality_proof |-> first]

\* AnyClientMessage::Grandpa(ClientMessage::Misbehaviour(Misbehaviour { .. }))
Misbehaviour(first, second) ==
    [variant |-> "Grandpa", first_finality_proof |-> first, second_finality_proof |-> second]

\* MsgUpdateAnyClient::new(client_id, client_message, signer).to_any()
MsgUpdateAnyClientNew(id, client_message, signer) ==
    [type_url |-> UPDATE_CLIENT_TYPE_URL, client_id |-> id,
     client_message |-> client_message, signer |-> signer]

\* the relay chain node of S as the detector's calls see it: `block` is what
\* chain_getBlock answers ("Ok" with the latest block `number`, "None" when the node
\* has no block to give, "RpcError" when the call fails), `justified` the blocks it
\* holds a justification of, `fault` what goes wrong with grandpa_proveFinality
RelayNode(block, number, justified, fault) ==
    [block |-> block, number |-> number, justified |-> justified, fault |-> fault]

NodeFaults == {"none", "proof_error", "proof_undecodable", "justification_undecodable"}

\* grandpa_proveFinality(number): the encoded finality proof of the first justified
\* block from `number` on, None when there is none
ProveFinality(node, number) ==
    LET from == {k \in node.justified : k >= number}
        k == SetMin(from)
    IN  CASE node.fault = "proof_error" -> [result |-> "RpcError"]
          [] from = {} -> [result |-> "None"]
          [] node.fault = "proof_undecodable" -> [result |-> "Ok", encoded |-> Undecodable]
          [] OTHER ->
                [result |-> "Ok",
                 encoded |->
                    FinalityProof(RealHash(k),
                                  IF node.fault = "justification_undecodable"
                                  THEN Undecodable ELSE GrandpaJustification(RealHash(k), k),
                                  <<[number |-> k]>>)]

\* what a call of the detector comes to: Ok, Err or a panic, and what it submitted
Outcome(result, submitted) == [result |-> result, submitted |-> submitted]

\* the block number handed to prove_finality:
\* target_block_number.min(finalized_block_number).saturating_sub(1), on u32
ProofBlockNumber(target_block_number, finalized_block_number) ==
    Max(Min(target_block_number, finalized_block_number) - 1, 0)

\* ParachainClient::check_for_misbehaviour
ParachainCheckForMisbehaviour(p, counterparty, client_message, node) ==
    IF ~IsHeader(client_message) THEN Outcome("Ok", << >>)
    ELSE
    LET proof == client_message.finality_proof
        numbers == {proof.unknown_headers[i].number : i \in 1..Len(proof.unknown_headers)}
    IN  IF numbers = {} THEN Outcome("Panic", << >>)
        ELSE IF node.block = "RpcError" THEN Outcome("Err", << >>)
        ELSE IF node.block = "None" THEN Outcome("Panic", << >>)
        ELSE
        LET target_block_number == SetMax(numbers)
            proved == ProveFinality(node, ProofBlockNumber(target_block_number, node.number))
            trusted == proved.encoded
        IN  IF proved.result # "Ok" THEN Outcome("Err", << >>)
            ELSE IF ~Decodes(trusted) THEN Outcome("Err", << >>)
            ELSE IF ~Decodes(proof.justification) \/ ~Decodes(trusted.justification)
            THEN Outcome("Err", << >>)
            ELSE IF proof.justification.commit.target_hash
                        # trusted.justification.commit.target_hash
            THEN Outcome("Ok", <<MsgUpdateAnyClientNew(p.client_id,
                                                       Misbehaviour(proof, trusted),
                                                       account_id(counterparty))>>)
            ELSE Outcome("Ok", << >>)

\* impl MisbehaviourHandler for AnyChain: every variant but Parachain is unreachable!()
check_for_misbehaviour(c, counterparty, client_message, node) ==
    IF c.variant = "Parachain"
    THEN ParachainCheckForMisbehaviour(c, counterparty, client_message, node)
    ELSE Outcome("Panic", << >>)

\* ParachainClient::query_client_message: the client message of the extrinsic that
\* emitted the UpdateClient event, an error when the extrinsic is not found
ParachainQueryClientMessage(p, update) ==
    IF update.found THEN [result |-> "Ok", client_message |-> update.client_message]
    ELSE [result |-> "Err"]

\* AnyChain::query_client_message: every variant but Parachain is unreachable!()
query_client_message(c, update) ==
    IF c.variant = "Parachain" THEN ParachainQueryClientMessage(c, update)
    ELSE [result |-> "Panic"]

----------------------------------------------------------------------------
(* The relay with its auxiliary event tasks: the task that watches D takes the
   UpdateClient events of D and runs the detector of S on each; a submission is
   outstanding from the call of submit until the transaction is in a block *)

\* the chains whose client another actor updates
Attacked == {"B"}

\* the headers another actor may submit for block `h` of S: the real block or a
\* forged one, with or without the headers of the proof, justification decodable or not
OtherHeaders(h) ==
    {GrandpaHeader(h, h, FinalityProof(proved[1], proved[2], unknown)) :
        proved \in {<<RealHash(h), GrandpaJustification(RealHash(h), h)>>,
                    <<ForgedHash(h), GrandpaJustification(ForgedHash(h), h)>>,
                    <<ForgedHash(h), Undecodable>>},
        unknown \in {<< >>, <<[number |-> h]>>}}

\* the states of the relay chain node of S the detector may meet: the node fails to
\* give its latest block, or gives it and fails or succeeds to prove finality
RelayNodes(S) ==
    {RelayNode(block, ledger[S].height, {}, "none") : block \in {"None", "RpcError"}}
    \cup {RelayNode("Ok", ledger[S].height, {}, fault) : fault \in {"none", "proof_error"}}
    \cup {RelayNode("Ok", ledger[S].height, {k}, fault) :
            k \in 1..MaxHeight, fault \in NodeFaults \ {"proof_error"}}

\* two chains, A with one packet to relay; B is a parachain or a wrapped parachain
InitDetect ==
    \E wrapped \in BOOLEAN :
        /\ chains = [c \in Chains |->
                LET p == ParachainClient(c, ConfiguredClientId[c], ConfiguredWhitelist,
                                         ConfiguredWeight[c])
                IN  IF c = "B" /\ wrapped THEN WasmChain(p, "code-1", "10-grandpa") ELSE p]
        /\ ledger = [c \in Chains |->
                IF c = "A"
                THEN InitLedger(FALSE, 0, {SentPacket(1, <<NoTimeout, NoTimeout>>)})
                ELSE InitLedger(wrapped, 0, {})]
        /\ finality = [c \in Chains |-> <<[height |-> 1, timestamp |-> 1]>>]
        /\ queue = [c \in Chains |-> << >>]
        /\ log = [c \in Chains |-> NoLog]
        /\ list = << >>
        /\ batches = << >>
        /\ AuxIdle

\* the submitter calls submit on X with the oldest queued batch, one call at a time
SubmitBegin(X) ==
    /\ queue[X] # << >>
    /\ ~\E call \in inflight[X] : call.by = "submitter"
    /\ inflight' = [inflight EXCEPT ![X] = @ \cup {[by |-> "submitter",
                                                    msgs |-> Head(queue[X])]}]
    /\ queue' = [queue EXCEPT ![X] = Tail(@)]
    /\ UNCHANGED <<chains, ledger, finality, log, list, batches, ibc_events, tasks,
                   justifications, boot>>

\* an outstanding submit call on X completes: its transaction is in a block of X
SubmitEnd(X) ==
    \E call \in inflight[X] :
        LET l == NextBlock(ledger[X], ExpectedBlockTime)
            delivered == submit(chains[X], call.msgs)
        IN  /\ inflight' = [inflight EXCEPT ![X] = @ \ {call}]
            /\ ledger' = [ledger EXCEPT ![X] = ExecAll(l, ledger[Other(X)], delivered)]
            /\ finality' = [finality EXCEPT ![X] = Notify(@, l)]
            /\ log' = IF call.by = "submitter"
                      THEN [log EXCEPT ![X] = Delivered(@, delivered)] ELSE log
            /\ tasks' = IF call.by = "detector"
                        THEN [tasks EXCEPT ![X] = "running"] ELSE tasks
            /\ UNCHANGED <<chains, queue, list, batches, ibc_events, justifications, boot>>

\* another actor updates D's client of S with a header of its choice; the update
\* that D accepts emits an UpdateClient event
OtherUpdate(D) ==
    \E h \in 2..MaxHeight : \E header \in OtherHeaders(h), found \in BOOLEAN :
        LET S == Other(D)
            l == NextBlock(ledger[D], ExpectedBlockTime)
            msg == MsgUpdateAnyClientNew(ConfiguredClientId[S], header, <<"signer", "other">>)
            after == ExecAll(l, ledger[S], submit(chains[D], <<msg>>))
        IN  /\ D \in Attacked
            /\ Len(ibc_events[D]) < MaxEvents
            /\ after # l
            /\ ledger' = [ledger EXCEPT ![D] = after]
            /\ finality' = [finality EXCEPT ![D] = Notify(@, l)]
            /\ ibc_events' = [ibc_events EXCEPT ![D] =
                                Append(@, [client_message |-> header, found |-> found])]
            /\ UNCHANGED <<chains, queue, log, list, batches, inflight, tasks,
                           justifications, boot>>

\* the event task of D takes the oldest UpdateClient event: it asks D for the client
\* message and hands it to the detector of S; an error is logged, a panic ends the
\* task, and the task awaits the submission the detector makes
Detect(D) ==
    \E node \in RelayNodes(Other(D)) :
        LET S == Other(D)
            update == Head(ibc_events[D])
            msg == query_client_message(chains[D], update)
            out == IF msg.result = "Ok"
                   THEN check_for_misbehaviour(chains[S], chains[D], msg.client_message, node)
                   ELSE Outcome(msg.result, << >>)
        IN  /\ tasks[D] = "running"
            /\ ibc_events[D] # << >>
            /\ ibc_events' = [ibc_events EXCEPT ![D] = Tail(@)]
            /\ tasks' = [tasks EXCEPT ![D] =
                    IF out.result = "Panic" THEN "panicked"
                    ELSE IF out.submitted # << >> THEN "submitting" ELSE "running"]
            /\ inflight' = IF out.submitted = << >> THEN inflight
                           ELSE [inflight EXCEPT ![D] = @ \cup {[by |-> "detector",
                                                                 msgs |-> out.submitted]}]
            /\ UNCHANGED <<chains, ledger, finality, queue, log, list, batches,
                           justifications, boot>>

NextDetect ==
    \/ \E S \in Chains : Relay(S)
    \/ \E X \in Chains : SubmitBegin(X)
    \/ \E X \in Chains : SubmitEnd(X)
    \/ \E D \in Chains : OtherUpdate(D)
    \/ \E D \in Chains : Detect(D)

SpecDetect == InitDetect /\ [][NextDetect]_vars

----------------------------------------------------------------------------
(* Submissions in flight *)

\* C11: for each destination chain at most one submit call is outstanding, counting
\* the calls of the submitter (the relay tasks' batches) and of the misbehaviour
\* detector in the event task
OneInFlight == \A X \in Chains : Cardinality(inflight[X]) <= 1

----------------------------------------------------------------------------
(* The finality stream of a parachain *)

ChunkSize == 6        \* .chunks(6)

\* a notification of the justification subscription of the relay chain node: the
\* encoded justification of block `number`, or an error of the subscription
Notification(number, kind) ==
    IF kind = "error" THEN [result |-> "Err", number |-> number]
    ELSE [result |-> "Ok", number |-> number,
          bytes |-> IF kind = "garbage" THEN Undecodable
                    ELSE GrandpaJustification(RealHash(number), number)]

RECURSIVE Chunks(_, _)
\* StreamExt::chunks(ChunkSize): a chunk each time ChunkSize items have come, and
\* the items left over when the stream ends
Chunks(stream, closed) ==
    IF Len(stream) >= ChunkSize
    THEN <<SubSeq(stream, 1, ChunkSize)>>
            \o Chunks(SubSeq(stream, ChunkSize + 1, Len(stream)), closed)
    ELSE IF closed /\ stream # << >> THEN <<stream>> ELSE << >>

\* a faulty downsampling, which yields the newest chunk first
LastOfChunksNewestFirst(stream, closed) ==
    LET chunks == Chunks(stream, closed)
    IN  [i \in 1..Len(chunks) |->
            chunks[Len(chunks) + 1 - i][Len(chunks[Len(chunks) + 1 - i])]]

\* .chunks(6).map(|mut notifs| notifs.remove(notifs.len() - 1))
LastOfChunks(stream, closed) ==
    LET chunks == Chunks(stream, closed)
    IN  [i \in 1..Len(chunks) |-> chunks[i][Len(chunks[i])]]

\* a faulty filter, which ends the stream at the first item it cannot use
FilterMapUntilError(subscription, protocol) ==
    LET Good(n) == n.result = "Ok" /\ Decodes(n.bytes)
        bad == {i \in 1..Len(subscription) : ~Good(subscription[i])}
        kept == IF bad = {} THEN subscription ELSE SubSeq(subscription, 1, SetMin(bad) - 1)
    IN  [i \in 1..Len(kept) |-> [protocol |-> protocol, justification |-> kept[i].bytes]]

\* subscription.filter_map(..): errors and undecodable justifications are logged and
\* dropped, the others are yielded as finality events of the protocol
FilterMap(subscription, protocol) ==
    LET Good(n) == n.result = "Ok" /\ Decodes(n.bytes)
        kept == SelectSeq(subscription, Good)
    IN  [i \in 1..Len(kept) |-> [protocol |-> protocol, justification |-> kept[i].bytes]]

\* a faulty finality_notifications, which does not downsample
FinalityNotificationsOfAll(p, stream, closed) ==
    FilterMap(stream, p.finality_protocol)

\* ParachainClient::finality_notifications
ParachainFinalityNotifications(p, stream, closed) ==
    IF p.finality_protocol = "Grandpa"
    THEN FilterMap(LastOfChunks(stream, closed), "Grandpa")
    ELSE FilterMap(stream, "Beefy")

\* AnyChain::finality_notifications: the events as AnyFinalityEvent::Parachain; the
\* decorator returns the stream of its inner chain
finality_notifications(c, stream, closed) ==
    LET events == ParachainFinalityNotifications(IF c.variant = "Wasm" THEN c.inner ELSE c,
                                                 stream, closed)
    IN  [i \in 1..Len(events) |-> [variant |-> "Parachain", event |-> events[i]]]

\* the block a finality event finalizes
FinalizedNumber(e) == e.event.justification.commit.target_number

MaxNotifs == 13       \* notifications of the justification subscription

\* the finality event the relay task makes of a stream item: the parachain block a
\* justification finalizes carries the justification's number
FinalityEventOf(e) == [height |-> FinalizedNumber(e), timestamp |-> FinalizedNumber(e)]

\* chain A, a parachain or a wrapped one with either finality protocol, has a packet
\* to relay; its relay chain node has sent some notifications, at most one an error
\* and at most one undecodable, and has ended the subscription or keeps it open;
\* both chains are past the blocks the notifications are of
InitStream ==
    \E n \in 0..MaxNotifs, protocol \in {"Grandpa", "Beefy"}, wrapped, closed \in BOOLEAN :
        \E err, bad \in 0..n :
            /\ chains = [c \in Chains |->
                    LET p == ParachainClient(c, ConfiguredClientId[c], ConfiguredWhitelist,
                                             ConfiguredWeight[c])
                    IN  IF c = "A" /\ wrapped
                        THEN WasmChain([p EXCEPT !.finality_protocol = protocol],
                                       "code-1", "10-grandpa")
                        ELSE IF c = "A" THEN [p EXCEPT !.finality_protocol = protocol] ELSE p]
            /\ ledger = [c \in Chains |->
                    [InitLedger(c = "A" /\ wrapped, 0,
                                IF c = "A" THEN {SentPacket(1, <<NoTimeout, NoTimeout>>)}
                                ELSE {})
                        EXCEPT !.height = MaxNotifs, !.time = MaxNotifs]]
            /\ finality = [c \in Chains |-> << >>]
            /\ queue = [c \in Chains |-> << >>]
            /\ log = [c \in Chains |-> NoLog]
            /\ list = << >>
            /\ batches = << >>
            /\ inflight = [c \in Chains |-> {}]
            /\ ibc_events = [c \in Chains |-> << >>]
            /\ tasks = [c \in Chains |-> "running"]
            /\ boot = [pc |-> "idle"]
            /\ justifications =
                    [stream |-> [i \in 1..n |->
                                    Notification(i, IF i = err THEN "error"
                                                    ELSE IF i = bad THEN "garbage" ELSE "good")],
                     closed |-> closed, subscribed |-> FALSE, events |-> << >>]

\* the relay task of S calls finality_notifications and is handed the stream; when
\* the node refuses the subscription the call panics on its .expect(..)
Subscribe(S) ==
    \E refused \in BOOLEAN :
        LET events == IF refused THEN << >>
                      ELSE finality_notifications(chains[S], justifications.stream,
                                                  justifications.closed)
        IN  /\ ~justifications.subscribed
            /\ justifications' = [justifications EXCEPT !.subscribed = TRUE,
                                                        !.events = events]
            /\ finality' = [finality EXCEPT ![S] =
                                [i \in 1..Len(events) |-> FinalityEventOf(events[i])]]
            /\ tasks' = IF refused THEN [tasks EXCEPT ![S] = "panicked"] ELSE tasks
            /\ UNCHANGED <<chains, ledger, queue, log, list, batches, inflight, ibc_events,
                           boot>>

\* the relay task of the direction A -> B on its own, and the submitter to B
NextStream ==
    \/ Subscribe("A")
    \/ Relay("A")
    \/ Submit("B")

SpecStream == InitStream /\ [][NextStream]_vars

\* the heights of the client updates queued for X, in the order of submission
UpdateHeights(X) ==
    LET updates == SelectSeq(Pending(X), IsUpdate)
        Header(m) == IF m.client_message.variant = "Wasm" THEN m.client_message.inner
                     ELSE m.client_message
    IN  [i \in 1..Len(updates) |-> Header(updates[i]).height]

\* the numbers of the blocks a stream of finality events finalizes, in stream order
Numbers(events) == [i \in 1..Len(events) |-> FinalizedNumber(events[i])]

\* `numbers` picks good notifications of the subscription, in the order they came
InSourceOrder(numbers) ==
    /\ \A i \in 1..Len(numbers) :
            /\ numbers[i] \in 1..Len(justifications.stream)
            /\ justifications.stream[numbers[i]].result = "Ok"
            /\ Decodes(justifications.stream[numbers[i]].bytes)
    /\ \A i, j \in 1..Len(numbers) : i < j => numbers[i] < numbers[j]

\* C12: the stream a chain's finality_notifications returns - of the parachain
\* itself, through AnyChain, or through the decorator - drops notifications but
\* yields the others in the order the source produced them, and the client updates
\* reach the destination in the order of the finality events they are made of
FinalityInOrder ==
    LET p == IF chains["A"].variant = "Wasm" THEN chains["A"].inner ELSE chains["A"]
        stream == justifications.stream
        closed == justifications.closed
        direct == ParachainFinalityNotifications(p, stream, closed)
        heights == UpdateHeights("B")
        waiting == [i \in 1..Len(finality["A"]) |-> finality["A"][i].height]
        order == heights \o waiting
    IN  /\ InSourceOrder([i \in 1..Len(direct) |-> direct[i].justification.commit.target_number])
        /\ InSourceOrder(Numbers(finality_notifications(p, stream, closed)))
        /\ InSourceOrder(Numbers(finality_notifications(WasmChain(p, "code-1", "10-grandpa"),
                                                        stream, closed)))
        /\ \A i, j \in 1..Len(order) : i < j => order[i] < order[j]
        /\ order # << >> => log["B"].updated < order[1]

\* two client updates made of two finality events of a downsampled stream are queued
FinalityInOrderWitness ==
    /\ chains["A"].variant = "Wasm"
    /\ chains["A"].inner.finality_protocol = "Grandpa"
    /\ Len(justifications.stream) > 2 * ChunkSize
    /\ UpdateHeights("B") = <<ChunkSize, 2 * ChunkSize>>

----------------------------------------------------------------------------
(* The operations of a chain handle, one call at a time *)

\* MsgCreateAnyClient { client_state, consensus_state, signer }
MsgCreateAnyClient(client_state, consensus_state, signer) ==
    [type_url |-> CREATE_CLIENT_TYPE_URL, client_state |-> client_state,
     consensus_state |-> consensus_state, signer |-> signer]

\* MsgConnectionOpenAck: client_state is an Option, here a sequence of at most one
MsgConnectionOpenAck(client_state, signer) ==
    [type_url |-> CONN_OPEN_ACK_TYPE_URL, connection_id |-> "connection-0",
     counterparty_connection_id |-> "connection-1", client_state |-> client_state,
     proofs |-> [height |-> 1], version |-> "1", signer |-> signer]

\* MsgConnectionOpenTry: client_state is an Option, here a sequence of at most one
MsgConnectionOpenTry(client_state, signer) ==
    [type_url |-> CONN_OPEN_TRY_TYPE_URL, client_id |-> "10-grandpa-0",
     client_state |-> client_state, counterparty |-> "connection-0",
     counterparty_versions |-> <<"1">>, proofs |-> [height |-> 1], delay_period |-> 0,
     signer |-> signer]

\* the initial client state and consensus state of a chain
InitialClientState(chain) == [chain_id |-> chain, latest_height |-> 1]

InitialConsensusState(chain) == [chain_id |-> chain, timestamp |-> 1]

\* ParachainClient::initialize_client_state
ParachainInitializeClientState(p) ==
    [result |-> "Ok", client_state |-> InitialClientState(p.name),
     consensus_state |-> InitialConsensusState(p.name)]

\* AnyChain::initialize_client_state
initialize_client_state(c) ==
    IF c.variant = "Wasm" THEN ParachainInitializeClientState(c.inner)
    ELSE ParachainInitializeClientState(c)

\* ParachainClient::is_update_required: the inner chain's decision on these heights
ParachainIsUpdateRequired(p, latest_height, latest_client_height_on_counterparty) ==
    [decided_by |-> p.name, latest_height |-> latest_height,
     latest_client_height_on_counterparty |-> latest_client_height_on_counterparty]

\* AnyChain::is_update_required
is_update_required(c, latest_height, latest_client_height_on_counterparty) ==
    ParachainIsUpdateRequired(IF c.variant = "Wasm" THEN c.inner ELSE c,
                              latest_height, latest_client_height_on_counterparty)

\* the extrinsic of a submit call was included in a block, or the call failed
Included(ext_hash, block_hash) ==
    [result |-> "Ok", ext_hash |-> ext_hash, block_hash |-> block_hash]

Failed(error) == [result |-> "Err", error |-> error]

\* ParachainClient::submit: Ok((ext_hash, Some(block_hash))), or the error of the call
ParachainSubmitResult(p, included) ==
    IF included.result = "Ok"
    THEN [result |-> "Ok", id |-> <<included.ext_hash, <<included.block_hash>>>>]
    ELSE included

\* a faulty decorator, which tags the transaction id as its own
SubmitResultRetagged(c, included) ==
    LET r == ParachainSubmitResult(IF c.variant = "Wasm" THEN c.inner ELSE c, included)
    IN  IF r.result = "Ok" THEN [result |-> "Ok", id |-> [variant |-> c.variant, id |-> r.id]]
        ELSE [result |-> "Err", error |-> [variant |-> c.variant, error |-> r.error]]

\* AnyChain::submit, what it returns: AnyTransactionId::Parachain(id), or the error
\* converted; the decorator returns what its inner chain returns
SubmitResult(c, included) ==
    LET r == ParachainSubmitResult(IF c.variant = "Wasm" THEN c.inner ELSE c, included)
    IN  IF r.result = "Ok" THEN [result |-> "Ok", id |-> [variant |-> "Parachain", id |-> r.id]]
        ELSE [result |-> "Err", error |-> [variant |-> "Parachain", error |-> r.error]]

\* the hash of an extrinsic of a chain; `created` holds the id of the client the
\* extrinsic created, if it created one
ExtHash(chain, created) == [chain |-> chain, created |-> created]

\* ParachainClient::query_client_id_from_tx_hash: the client id in the create-client
\* event of the transaction, an error when it emitted none
ParachainQueryClientIdFromTxHash(p, id) ==
    IF id[1].created = << >> THEN Failed("no create-client event")
    ELSE [result |-> "Ok", client_id |-> id[1].created[1]]

\* AnyChain::query_client_id_from_tx_hash: the Parachain arm expects a parachain
\* transaction id
query_client_id_from_tx_hash(c, tx_id) ==
    LET p == IF c.variant = "Wasm" THEN c.inner ELSE c
    IN  IF tx_id.variant # "Parachain" THEN [result |-> "Panic"]
        ELSE ParachainQueryClientIdFromTxHash(p, tx_id.id)

MaxMsgs == 2          \* messages in a list given to submit on its own

\* the messages submit is tried with: the relayer's client, handshake and packet messages
WrapAlphabet ==
    {MsgCreateAnyClient(InitialClientState("A"), InitialConsensusState("A"), <<"signer", "B">>),
     MsgUpdateAnyClient("10-grandpa-0", [height |-> 2, timestamp |-> 2], <<"signer", "B">>),
     MsgConnectionOpenAck(<<InitialClientState("B")>>, <<"signer", "B">>),
     MsgConnectionOpenAck(<< >>, <<"signer", "B">>),
     MsgConnectionOpenTry(<<InitialClientState("B")>>, <<"signer", "B">>),
     MsgConnectionOpenTry(<< >>, <<"signer", "B">>),
     PacketMsg(RECV_PACKET_TYPE_URL, SentPacket(1, <<NoTimeout, NoTimeout>>), 2,
               <<"signer", "B">>)}

\* the client messages the detector is tried with: headers of another actor, a
\* misbehaviour report, and a header of another protocol
DetectorMessages ==
    UNION {OtherHeaders(h) : h \in 1..2}
    \cup {Misbehaviour(FinalityProof(RealHash(1), GrandpaJustification(RealHash(1), 1), << >>),
                       FinalityProof(RealHash(1), GrandpaJustification(RealHash(1), 1), << >>)),
          [variant |-> "Beefy", height |-> 1, timestamp |-> 1]}

\* ParachainClient::query_latest_ibc_events on a finality event of its own kind: the
\* query is made and the chain's answer returned
ParachainQueryLatestIbcEvents(p, finality_event, answer) ==
    [returned |-> answer, queried |-> <<finality_event>>]

\* a faulty dispatch, which hands the event on whatever its kind
QueryLatestIbcEventsUnchecked(c, finality_event, answer) ==
    ParachainQueryLatestIbcEvents(IF c.variant = "Wasm" THEN c.inner ELSE c,
                                  finality_event.event, answer)

\* AnyChain::query_latest_ibc_events: the event is downcast to the kind of the chain
\* and the chain queried; the decorator asks its inner chain
query_latest_ibc_events(c, finality_event, answer) ==
    LET p == IF c.variant = "Wasm" THEN c.inner ELSE c
    IN  IF finality_event.variant # p.variant
        THEN [returned |-> [result |-> "Err", error |-> "Invalid finality event type"],
              queried |-> << >>]
        ELSE ParachainQueryLatestIbcEvents(p, finality_event.event, answer)

\* what the chain may answer to the query: the client message, the events and the
\* update type, or an error
LatestIbcEventsAnswers ==
    {[result |-> "Ok", client_msg |-> [height |-> 2, timestamp |-> 2], events |-> events,
      update_type |-> update_type] :
        events \in {<< >>, <<"SendPacket">>}, update_type \in {"Mandatory", "Optional"}}
    \cup {[result |-> "Err", error |-> "rpc"]}

\* the detector's calls on an honest header of every target, with every latest
\* block of the relay chain node and every block it may hold a justification of
ProofCalls ==
    {[op |-> "check_for_misbehaviour",
      counterparty |-> ParachainClient("A", "08-wasm-0", ConfiguredWhitelist, 2),
      client_message |->
        GrandpaHeader(h, h, FinalityProof(RealHash(h), GrandpaJustification(RealHash(h), h),
                                          <<[number |-> h]>>)),
      node |-> RelayNode("Ok", f, {k}, "none")] : h, f, k \in 0..MaxHeight}

\* the calls a handle is tried with
Calls ==
    ProofCalls \cup
    {[op |-> "query_latest_ibc_events", finality_event |-> [variant |-> v, event |-> [height |-> h]],
      answer |-> answer] :
        v \in {"Parachain", "Cosmos"}, h \in 1..MaxHeight, answer \in LatestIbcEventsAnswers} \cup
    {[op |-> "submit", messages |-> msgs, included |-> inc] :
        msgs \in UNION {[1..n -> WrapAlphabet] : n \in 0..MaxMsgs},
        inc \in {Included(ExtHash("B", << >>), "block-1"), Failed("rpc")}}
    \cup {[op |-> "check_for_misbehaviour", counterparty |-> d, client_message |-> m,
           node |-> node] :
            d \in {ParachainClient("A", "08-wasm-0", ConfiguredWhitelist, 2)},
            m \in DetectorMessages, node \in RelayNodes("B")}
    \cup {[op |-> "query_client_message", update |-> [client_message |-> m, found |-> found]] :
            m \in DetectorMessages, found \in BOOLEAN}
    \cup {[op |-> "query_client_id_from_tx_hash", tx_id |-> [variant |-> v, id |-> id]] :
            v \in {"Parachain", "Cosmos"},
            id \in {<<ExtHash("B", created), <<"block-1">>>> :
                        created \in {<< >>, <<"10-grandpa-0">>}}}
    \cup {[op |-> "is_update_required", latest_height |-> h,
           latest_client_height_on_counterparty |-> k] : h, k \in 1..MaxHeight}
    \cup {[op |-> "estimate_weight", messages |-> <<m>>] : m \in WrapAlphabet}
    \cup {[op |-> "finality_notifications",
           stream |-> [i \in 1..n |-> Notification(i, "good")], closed |-> closed] :
            n \in {0, ChunkSize, ChunkSize + 1}, closed \in BOOLEAN}
    \cup {[op |-> op] : op \in {"initialize_client_state", "name", "client_id", "account_id",
                                "channel_whitelist", "block_max_weight",
                                "latest_height_and_timestamp", "expected_block_time",
                                "query_connection_delay"}}
    \cup {[op |-> "query_packet_commitments", at |-> at] : at \in 1..MaxHeight}

\* AnyChain's operation: what the call comes to on this handle
AnyChainCall(c, call) ==
    CASE call.op = "submit" ->
            [delivered |-> submit(c, call.messages), returned |-> SubmitResult(c, call.included)]
      [] call.op = "check_for_misbehaviour" ->
            check_for_misbehaviour(c, call.counterparty, call.client_message, call.node)
      [] call.op = "query_latest_ibc_events" ->
            query_latest_ibc_events(c, call.finality_event, call.answer)
      [] call.op = "query_client_message" -> query_client_message(c, call.update)
      [] call.op = "query_client_id_from_tx_hash" ->
            query_client_id_from_tx_hash(c, call.tx_id)
      [] call.op = "is_update_required" ->
            is_update_required(c, call.latest_height,
                               call.latest_client_height_on_counterparty)
      [] call.op = "estimate_weight" -> [weight |-> estimate_weight(c, call.messages)]
      [] call.op = "finality_notifications" ->
            [events |-> finality_notifications(c, call.stream, call.closed)]
      [] call.op = "initialize_client_state" -> initialize_client_state(c)
      [] call.op = "name" -> [value |-> name(c)]
      [] call.op = "client_id" -> [value |-> client_id(c)]
      [] call.op = "account_id" -> [value |-> account_id(c)]
      [] call.op = "channel_whitelist" -> [value |-> channel_whitelist(c)]
      [] call.op = "block_max_weight" -> [value |-> block_max_weight(c)]
      [] call.op = "latest_height_and_timestamp" -> [value |-> latest_height_and_timestamp(c)]
      [] call.op = "expected_block_time" -> [value |-> expected_block_time(c)]
      [] call.op = "query_connection_delay" -> [value |-> query_connection_delay(c)]
      [] call.op = "query_packet_commitments" ->
            [value |-> query_packet_commitments(c, call.at, ConfiguredWhitelist[1][1], Port)]

\* the handles of chain B: the parachain and the decorator around it
CallHandles ==
    LET p == ParachainClient("B", ConfiguredClientId["B"], ConfiguredWhitelist,
                             ConfiguredWeight["B"])
    IN  {p, WasmChain(p, "code-1", "10-grandpa")}

InitCall ==
    /\ InitScanned(0, 1, <<<<NoTimeout, NoTimeout>>>>, 1, 1, {}, {1})
    /\ \E c \in CallHandles, call \in Calls : list = [chain |-> c, call |-> call]
    /\ batches = << >>
    /\ AuxIdle

\* the call is made
Call ==
    /\ batches = << >>
    /\ batches' = <<AnyChainCall(list.chain, list.call)>>
    /\ UNCHANGED <<chains, ledger, finality, queue, log, list, aux>>

NextCall == Call

SpecCall == InitCall /\ [][NextCall]_vars

----------------------------------------------------------------------------
(* The decorator *)

\* C13: every operation other than submit, called on a wrapped chain, comes to what
\* the same call comes to on the inner chain
WrappedIsTransparent ==
    (batches # << >> /\ list.chain.variant = "Wasm" /\ list.call.op # "submit")
        => batches[1] = AnyChainCall(list.chain.inner, list.call)

\* the fields of the message `n` other than `changed` are those of `m`
SameBut(m, n, changed) ==
    /\ DOMAIN n = DOMAIN m
    /\ \A f \in DOMAIN m \ changed : n[f] = m[f]

\* C14: submit on a wrapped chain hands a CreateClient on with its client state and
\* consensus state as meta payloads of the code id (the consensus state at initial
\* height 1), an UpdateClient with its client message as a meta payload, a
\* ConnectionOpenAck with its client state as a meta payload when it has one and
\* without client state when it has none; the other fields are unchanged
RewrapByType ==
    (batches # << >> /\ list.call.op = "submit" /\ list.chain.variant = "Wasm") =>
        LET msgs == list.call.messages
            delivered == batches[1].delivered
            code_id == list.chain.code_id
            Meta(cs) == [variant |-> "Wasm", inner |-> cs, code_id |-> code_id]
        IN  /\ Len(delivered) = Len(msgs)
            /\ \A i \in 1..Len(msgs) :
                LET m == msgs[i]
                    n == delivered[i]
                IN  /\ m.type_url = CREATE_CLIENT_TYPE_URL =>
                            /\ n.client_state = Meta(m.client_state)
                            /\ n.consensus_state =
                                    [variant |-> "Wasm", inner |-> m.consensus_state,
                                     code_id |-> code_id, height |-> 1]
                            /\ SameBut(m, n, {"client_state", "consensus_state"})
                    /\ m.type_url = UPDATE_CLIENT_TYPE_URL =>
                            /\ n.client_message = [variant |-> "Wasm", inner |-> m.client_message]
                            /\ SameBut(m, n, {"client_message"})
                    /\ m.type_url = CONN_OPEN_ACK_TYPE_URL =>
                            /\ n.client_state =
                                    [j \in 1..Len(m.client_state) |-> Meta(m.client_state[j])]
                            /\ SameBut(m, n, {"client_state"})

\* a wrapped chain was handed a CreateClient and a ConnectionOpenAck without client state
RewrapWitness ==
    /\ batches # << >>
    /\ list.call.op = "submit"
    /\ list.chain.variant = "Wasm"
    /\ Len(list.call.messages) = 2
    /\ list.call.messages[1].type_url = CREATE_CLIENT_TYPE_URL
    /\ list.call.messages[2].type_url = CONN_OPEN_ACK_TYPE_URL
    /\ list.call.messages[2].client_state = << >>
    /\ batches[1].delivered[1].consensus_state.height = 1
    /\ batches[1].delivered[2].client_state = << >>

----------------------------------------------------------------------------
(* The detector, one call at a time *)

\* the detector was called on a parachain handle with a header of another actor
\* whose proof decodes, and the relay chain node of S answers with its proof of
\* the block of the same number
SameHeightFetched ==
    /\ batches # << >>
    /\ list.call.op = "check_for_misbehaviour"
    /\ list.chain.variant = "Parachain"
    /\ IsHeader(list.call.client_message)
    /\ list.call.client_message.finality_proof.unknown_headers # << >>
    /\ Decodes(list.call.client_message.finality_proof.justification)
    /\ list.call.node.block = "Ok"
    /\ list.call.node.fault = "none"
    /\ list.call.node.justified =
            {list.call.client_message.finality_proof.justification.commit.target_number}

\* C16: when the header's finality proof and the proof fetched from S commit to
\* different block hashes at the same height, the detector submits to the
\* counterparty exactly one UpdateClient whose payload is a Misbehaviour with the
\* submitted proof first and the fetched proof second, addressed to S's client id
\* and signed by the counterparty's account
ConflictIsReported ==
    LET proof == list.call.client_message.finality_proof
        k == proof.justification.commit.target_number
        fetched == [block |-> RealHash(k),
                    justification |-> [commit |-> [target_hash |-> RealHash(k),
                                                   target_number |-> k]],
                    unknown_headers |-> <<[number |-> k]>>]
    IN  (SameHeightFetched /\ proof.justification.commit.target_hash # RealHash(k)) =>
            /\ batches[1].result = "Ok"
            /\ batches[1].submitted =
                <<[type_url |-> UPDATE_CLIENT_TYPE_URL,
                   client_id |-> list.chain.client_id,
                   client_message |-> [variant |-> "Grandpa",
                                       first_finality_proof |-> proof,
                                       second_finality_proof |-> fetched],
                   signer |-> <<"signer", list.call.counterparty.name>>]>>

\* a forged header of height 2 met the node's proof of block 2 and was reported
ConflictIsReportedWitness ==
    /\ SameHeightFetched
    /\ list.call.client_message.height = 2
    /\ list.call.client_message.finality_proof.justification.commit.target_hash = ForgedHash(2)
    /\ Len(batches[1].submitted) = 1
    /\ batches[1].submitted[1].client_message.second_finality_proof.block = RealHash(2)

\* C17: the detector never halts the relay: whatever the client message and the
\* chain variant, when the client message cannot be rebuilt or the proof of S
\* cannot be fetched or decoded, the detector returns without a panic and the
\* task that runs it keeps running
DetectorNeverHalts == \A D \in Chains : tasks[D] # "panicked"

\* C18: misbehaviour freezes the client: once the detector's Misbehaviour
\* client-update is in a block of D, D's client of S is frozen
MisbehaviourFreezes ==
    [][\A D \in Chains : \A call \in inflight[D] :
            (call.by = "detector" /\ call \notin inflight'[D]) => ledger'[D].frozen]_vars

----------------------------------------------------------------------------
(* Bootstrap: create_clients, create_connection, create_channel *)

\* the handle's client id before any client was created (client_id: None)
NoClientId == "none"

\* the record `r` with `field` set to `value`
With(r, field, value) ==
    [f \in DOMAIN r \cup {field} |-> IF f = field THEN value ELSE r[f]]

\* set_client_id of a handle; the decorator sets it on its inner chain
set_client_id(c, id) ==
    IF c.variant = "Wasm" THEN [c EXCEPT !.inner = With(@, "client_id", id)]
    ELSE With(c, "client_id", id)

\* set_connection_id of a handle
set_connection_id(c, id) ==
    IF c.variant = "Wasm" THEN [c EXCEPT !.inner = With(@, "connection_id", id)]
    ELSE With(c, "connection_id", id)

\* add_channel_to_whitelist of a handle
add_channel_to_whitelist(c, channel_and_port_id) ==
    IF c.variant = "Wasm"
    THEN [c EXCEPT !.inner.channel_whitelist = Append(@, channel_and_port_id)]
    ELSE [c EXCEPT !.channel_whitelist = Append(@, channel_and_port_id)]

\* query_connection_id_from_tx_hash and query_channel_id_from_tx_hash: the id in the
\* event of the transaction, an error when it emitted none
QueryIdFromTxHash(c, tx_id) ==
    IF tx_id.id[1].created = << >> THEN Failed("no event in the transaction")
    ELSE [result |-> "Ok", id |-> tx_id.id[1].created[1]]

\* what a bootstrap function came to
Running == [result |-> "Running"]

Ok(value) == [result |-> "Ok", value |-> value]

Panicked(message) == [result |-> "Panic", message |-> message]

\* the inclusion of a submitted extrinsic in a block of the chain, creating one of
\* `ids` or nothing, or the failure of the call
Inclusions(chain, ids) ==
    {Included(ExtHash(chain, created), "block-1") : created \in {<< >>} \cup {<<i>> : i \in ids}}
    \cup {Failed("rpc")}

\* the function is at `pc` with these handles
BootAt(fn, pc) == boot.pc = pc /\ boot.fn = fn

\* the function ends with `result`
BootEnds(result) == boot' = [boot EXCEPT !.pc = "done", !.result = result]

BootFrame == UNCHANGED <<chains, ledger, finality, queue, log, list, batches, inflight, ibc_events, tasks, justifications>>

\* the ids a chain may assign to a new client; it assigns no id twice
ClientIds == {"10-grandpa-0", "10-grandpa-1"}

\* the ids chain A may assign to a new connection or channel
HandshakeIds == {"id-0", "id-9"}

MaxCalls == 2         \* invocations of a bootstrap function for one chain pair

\* create_clients, lines 70-71: the initial states of both chains
InitializeClientStates ==
    /\ BootAt("create_clients", "start")
    /\ \E fails \in {"none", "a", "b"} :
        LET state_a == IF fails = "a" THEN Failed("rpc") ELSE initialize_client_state(boot.a)
            state_b == IF fails = "b" THEN Failed("rpc") ELSE initialize_client_state(boot.b)
        IN  IF state_a.result # "Ok" THEN BootEnds(state_a)
            ELSE IF state_b.result # "Ok" THEN BootEnds(state_b)
            ELSE boot' = [boot EXCEPT !.pc = "create_on_a",
                                      !.states = [a |-> state_a, b |-> state_b]]
    /\ BootFrame

\* create_clients, lines 73-83: B's client is created on A
CreateClientOnA ==
    /\ BootAt("create_clients", "create_on_a")
    /\ \E included \in Inclusions(name(boot.a), ClientIds \ Range(boot.created.a)) :
        LET msg == MsgCreateAnyClient(boot.states.b.client_state,
                                      boot.states.b.consensus_state, account_id(boot.a))
            tx_id == SubmitResult(boot.a, included)
            client_id_b_on_a == query_client_id_from_tx_hash(boot.a, tx_id.id)
            sent == [boot EXCEPT !.sent.a = Append(@, <<msg>>)]
        IN  IF tx_id.result # "Ok" THEN boot' = [sent EXCEPT !.pc = "done", !.result = tx_id]
            ELSE IF client_id_b_on_a.result # "Ok"
            THEN boot' = [sent EXCEPT !.pc = "done", !.result = client_id_b_on_a]
            ELSE boot' = [sent EXCEPT !.pc = "create_on_b",
                                      !.created.a = Append(@, client_id_b_on_a.client_id),
                                      !.a = set_client_id(@, client_id_b_on_a.client_id),
                                      !.ids = <<client_id_b_on_a.client_id>>]
    /\ BootFrame

\* create_clients, line 95: chain_a.set_client_id(client_id_b_on_a.clone())
SetClientIdsAtEnd(a, b, client_id_a_on_b, client_id_b_on_a) ==
    [a |-> set_client_id(a, client_id_b_on_a), b |-> b]

\* create_clients, lines 85-97: A's client is created on B
CreateClientOnB ==
    /\ BootAt("create_clients", "create_on_b")
    /\ \E included \in Inclusions(name(boot.b), ClientIds \ Range(boot.created.b)) :
        LET msg == MsgCreateAnyClient(boot.states.a.client_state,
                                      boot.states.a.consensus_state, account_id(boot.b))
            tx_id == SubmitResult(boot.b, included)
            client_id_a_on_b == query_client_id_from_tx_hash(boot.b, tx_id.id)
            client_id_b_on_a == boot.ids[1]
            sent == [boot EXCEPT !.sent.b = Append(@, <<msg>>)]
            set == SetClientIdsAtEnd(boot.a, boot.b, client_id_a_on_b.client_id,
                                     client_id_b_on_a)
        IN  IF tx_id.result # "Ok" THEN boot' = [sent EXCEPT !.pc = "done", !.result = tx_id]
            ELSE IF client_id_a_on_b.result # "Ok"
            THEN boot' = [sent EXCEPT !.pc = "done", !.result = client_id_a_on_b]
            ELSE boot' = [sent EXCEPT !.pc = "done", !.a = set.a, !.b = set.b,
                                      !.created.b = Append(@, client_id_a_on_b.client_id),
                                      !.result = Ok(<<client_id_a_on_b.client_id,
                                                      client_id_b_on_a>>)]
    /\ BootFrame

\* an IbcEvent of a handshake; the ids are Options, sequences of at most one
HandshakeEvent(kind, id, counterparty_id) ==
    [kind |-> kind, id |-> id, counterparty_id |-> counterparty_id]

\* what the subscription of the last wait yielded, and whether it ended
Seen(stream, closed) == [stream |-> stream, closed |-> closed]

\* connection_id of a handle; the decorator answers with its inner chain's
connection_id(c) == IF c.variant = "Wasm" THEN c.inner.connection_id ELSE c.connection_id

\* .skip_while(|ev| !matches(ev)).take(1).collect(): the first of the `matching` events;
\* the future finishes when there is one or when the stream has ended
SkipWhileTakeOne(stream, closed, matching) ==
    LET hits == {i \in 1..Len(stream) : stream[i] \in matching}
    IN  [finished |-> hits # {} \/ closed,
         output |-> IF hits = {} THEN << >> ELSE <<stream[SetMin(hits)]>>]

\* timeout_future: the output of the future, a panic when the deadline passes first
timeout_future(future, reason) ==
    IF future.finished THEN Ok(future.output)
    ELSE Panicked("Future didn't finish within the deadline")

MaxStream == 2        \* events a handshake wait sees on the stream of B

\* what ibc_events() of B may yield while a handshake of `kind` is awaited: events
\* of this handshake with or without their own id, and events of another handshake
EventStreams(try, confirm) ==
    LET alphabet ==
            {HandshakeEvent(kind, id, <<counterparty>>) :
                kind \in {try, confirm}, id \in {<< >>, <<"id-1">>},
                counterparty \in HandshakeIds}
    IN  UNION {[1..n -> alphabet] : n \in 0..MaxStream}

\* create_connection, lines 107-119: the connection is opened on A
ConnectionOpenInit ==
    /\ BootAt("create_connection", "start")
    /\ \E included \in Inclusions(name(boot.a), HandshakeIds \ Range(boot.created.a)) :
        LET msg == [type_url |-> "/ibc.core.connection.v1.MsgConnectionOpenInit",
                    client_id |-> client_id(boot.b),
                    counterparty |-> [client_id |-> client_id(boot.a)],
                    signer |-> account_id(boot.a)]
            tx_id == SubmitResult(boot.a, included)
            connection_id_a == QueryIdFromTxHash(boot.a, tx_id.id)
            sent == [boot EXCEPT !.sent.a = Append(@, <<msg>>)]
        IN  IF tx_id.result # "Ok" THEN boot' = [sent EXCEPT !.pc = "done", !.result = tx_id]
            ELSE IF connection_id_a.result # "Ok"
            THEN boot' = [sent EXCEPT !.pc = "done", !.result = connection_id_a]
            ELSE boot' = [sent EXCEPT !.pc = "await_try",
                                      !.created.a = Append(@, connection_id_a.id),
                                      !.a = set_connection_id(@, connection_id_a.id),
                                      !.ids = <<connection_id_a.id>>]
    /\ BootFrame

\* create_connection, lines 124-146: wait for OpenTryConnection on B
AwaitOpenTryConnection ==
    /\ BootAt("create_connection", "await_try")
    /\ \E stream \in EventStreams("OpenTryConnection", "OpenConfirmConnection"),
          closed \in BOOLEAN :
        LET connection_id_a == boot.ids[1]
            Matches(ev) == /\ ev.kind = "OpenTryConnection"
                           /\ ev.counterparty_id = <<connection_id_a>>
            events == timeout_future(SkipWhileTakeOne(stream, closed,
                                                      {ev \in Range(stream) : Matches(ev)}),
                                     "Didn't see OpenTryConnection")
        IN  IF events.result = "Panic" THEN BootEnds(events)
            ELSE IF events.value = << >>
            THEN BootEnds(Panicked("Last event should be OpenTryConnection"))
            ELSE IF events.value[1].id = << >>
            THEN BootEnds(Panicked("called Option::unwrap() on a None value"))
            ELSE boot' = [boot EXCEPT !.pc = "await_confirm",
                                      !.seen = Seen(stream, closed),
                                      !.b = set_connection_id(@, events.value[1].id[1]),
                                      !.ids = Append(@, events.value[1].id[1])]
    /\ BootFrame

\* create_connection, lines 149-169: wait for OpenConfirmConnection on B
AwaitOpenConfirmConnection ==
    /\ BootAt("create_connection", "await_confirm")
    /\ \E stream \in EventStreams("OpenTryConnection", "OpenConfirmConnection"),
          closed \in BOOLEAN :
        LET connection_id_a == boot.ids[1]
            connection_id_b == boot.ids[2]
            Matches(ev) == /\ ev.kind = "OpenConfirmConnection"
                           /\ ev.id = <<connection_id_b>>
                           /\ ev.counterparty_id = <<connection_id_a>>
            events == timeout_future(SkipWhileTakeOne(stream, closed,
                                                      {ev \in Range(stream) : Matches(ev)}),
                                     "Didn't see OpenConfirmConnection")
        IN  IF events.result = "Panic" THEN BootEnds(events)
            ELSE boot' = [boot EXCEPT !.pc = "done", !.seen = Seen(stream, closed),
                                      !.result = Ok(<<connection_id_a, connection_id_b>>)]
    /\ BootFrame

\* create_channel, lines 182-198: the channel is opened on A
ChannelOpenInit ==
    /\ BootAt("create_channel", "start")
    /\ \E included \in Inclusions(name(boot.a), HandshakeIds \ Range(boot.created.a)) :
        LET msg == [type_url |-> "/ibc.core.channel.v1.MsgChannelOpenInit",
                    port_id |-> Port, signer |-> account_id(boot.a)]
            tx_id == SubmitResult(boot.a, included)
            channel_id_a == QueryIdFromTxHash(boot.a, tx_id.id)
            sent == [boot EXCEPT !.sent.a = Append(@, <<msg>>)]
        IN  IF tx_id.result # "Ok" THEN boot' = [sent EXCEPT !.pc = "done", !.result = tx_id]
            ELSE IF channel_id_a.result # "Ok"
            THEN boot' = [sent EXCEPT !.pc = "done", !.result = channel_id_a]
            ELSE boot' = [sent EXCEPT !.pc = "await_try",
                                      !.created.a = Append(@, channel_id_a.id),
                                      !.a = add_channel_to_whitelist(@, <<channel_id_a.id, Port>>),
                                      !.ids = <<channel_id_a.id>>]
    /\ BootFrame

\* create_channel, lines 202-223: wait for OpenTryChannel on B
AwaitOpenTryChannel ==
    /\ BootAt("create_channel", "await_try")
    /\ \E stream \in EventStreams("OpenTryChannel", "OpenConfirmChannel"), closed \in BOOLEAN :
        LET channel_id_a == boot.ids[1]
            Matches(ev) == /\ ev.kind = "OpenTryChannel"
                           /\ ev.counterparty_id = <<channel_id_a>>
            events == timeout_future(SkipWhileTakeOne(stream, closed,
                                                      {ev \in Range(stream) : Matches(ev)}),
                                     "Didn't see OpenTryChannel")
        IN  IF events.result = "Panic" THEN BootEnds(events)
            ELSE IF events.value = << >>
            THEN BootEnds(Panicked("Last event should be OpenTryChannel"))
            ELSE IF events.value[1].id = << >>
            THEN BootEnds(Panicked("called Option::unwrap() on a None value"))
            ELSE boot' = [boot EXCEPT !.pc = "await_confirm",
                                      !.seen = Seen(stream, closed),
                                      !.b = add_channel_to_whitelist(@, <<events.value[1].id[1], Port>>),
                                      !.ids = Append(@, events.value[1].id[1])]
    /\ BootFrame

\* create_channel, lines 225-244: wait for OpenConfirmChannel on B
AwaitOpenConfirmChannel ==
    /\ BootAt("create_channel", "await_confirm")
    /\ \E stream \in EventStreams("OpenTryChannel", "OpenConfirmChannel"), closed \in BOOLEAN :
        LET channel_id_a == boot.ids[1]
            channel_id_b == boot.ids[2]
            Matches(ev) == /\ ev.kind = "OpenConfirmChannel"
                           /\ ev.id = <<channel_id_b>>
                           /\ ev.counterparty_id = <<channel_id_a>>
            events == timeout_future(SkipWhileTakeOne(stream, closed,
                                                      {ev \in Range(stream) : Matches(ev)}),
                                     "Didn't see OpenConfirmChannel")
        IN  IF events.result = "Panic" THEN BootEnds(events)
            ELSE boot' = [boot EXCEPT !.pc = "done", !.seen = Seen(stream, closed),
                                      !.result = Ok(<<channel_id_a, channel_id_b>>)]
    /\ BootFrame

\* the handles a bootstrap function is given: plain or wrapped, with their client
\* ids when the clients exist already
BootHandle(chain, wrapped, id) ==
    LET p == ParachainClient(chain, id, << >>, ConfiguredWeight[chain])
    IN  IF wrapped THEN WasmChain(p, "code-1", "10-grandpa") ELSE p

\* a bootstrap function is called with the handles of A and B
InitBoot ==
    /\ InitScanned(0, 1, <<<<NoTimeout, NoTimeout>>>>, 1, 1, {}, {1})
    /\ list = << >>
    /\ batches = << >>
    /\ inflight = [c \in Chains |-> {}]
    /\ ibc_events = [c \in Chains |-> << >>]
    /\ tasks = [c \in Chains |-> "running"]
    /\ justifications = << >>
    /\ \E fn \in {"create_clients", "create_connection", "create_channel"},
          wrapped_a \in BOOLEAN, wrapped_b \in BOOLEAN :
        boot = [fn |-> fn, pc |-> "start",
                a |-> BootHandle("A", wrapped_a,
                                 IF fn = "create_clients" THEN NoClientId
                                 ELSE ConfiguredClientId["A"]),
                b |-> BootHandle("B", wrapped_b,
                                 IF fn = "create_clients" THEN NoClientId
                                 ELSE ConfiguredClientId["B"]),
                states |-> << >>, sent |-> [a |-> << >>, b |-> << >>], ids |-> << >>,
                result |-> Running, calls |-> 1, first |-> << >>, seen |-> Seen(<< >>, FALSE),
                created |-> [a |-> << >>, b |-> << >>]]

\* the caller invokes the function again, with the handles as they are now, after
\* it returned Ok; `first` keeps what the first invocation left behind
CallAgain ==
    /\ boot.pc = "done"
    /\ boot.result.result = "Ok"
    /\ boot.calls < MaxCalls
    /\ boot' = [boot EXCEPT !.pc = "start", !.calls = @ + 1, !.result = Running,
                            !.states = << >>, !.ids = << >>, !.seen = Seen(<< >>, FALSE),
                            !.sent = [a |-> << >>, b |-> << >>],
                            !.first = IF @ # << >> THEN @
                                      ELSE <<[result |-> boot.result, created |-> boot.created,
                                              a |-> boot.a, b |-> boot.b]>>]
    /\ BootFrame

NextBoot ==
    \/ InitializeClientStates
    \/ CreateClientOnA
    \/ CreateClientOnB
    \/ ConnectionOpenInit
    \/ AwaitOpenTryConnection
    \/ AwaitOpenConfirmConnection
    \/ ChannelOpenInit
    \/ AwaitOpenTryChannel
    \/ AwaitOpenConfirmChannel
    \/ CallAgain

SpecBoot == InitBoot /\ [][NextBoot]_vars

\* C19: after create_clients(A, B) returns Ok((id_a_on_b, id_b_on_a)), exactly one
\* CreateClient carrying B's initial states was submitted to A and one carrying A's
\* to B, the ids are those read from the two transactions, and each handle holds
\* the id of its own client on the counterparty: A holds id_a_on_b, B id_b_on_a
ClientIdsPersisted ==
    (boot.fn = "create_clients" /\ boot.pc = "done" /\ boot.result.result = "Ok") =>
        /\ boot.sent.a = <<<<[type_url |-> CREATE_CLIENT_TYPE_URL,
                              client_state |-> InitialClientState("B"),
                              consensus_state |-> InitialConsensusState("B"),
                              signer |-> <<"signer", "A">>]>>>>
        /\ boot.sent.b = <<<<[type_url |-> CREATE_CLIENT_TYPE_URL,
                              client_state |-> InitialClientState("A"),
                              consensus_state |-> InitialConsensusState("A"),
                              signer |-> <<"signer", "B">>]>>>>
        /\ boot.ids = <<boot.result.value[2]>>
        /\ client_id(boot.a) = boot.result.value[1]
        /\ client_id(boot.b) = boot.result.value[2]

\* C20: errors during bootstrap propagate to the caller: whenever a step of
\* create_clients, create_connection or create_channel fails, the function returns
\* an Err; it does not abort the process with a panic
BootstrapNeverPanics == boot.result.result # "Panic"

----------------------------------------------------------------------------
(* Downsampling of Grandpa justifications *)

\* the relay task of A holds the stream of a Grandpa parachain
GrandpaSubscribed ==
    /\ justifications.subscribed
    /\ tasks["A"] # "panicked"
    /\ (IF chains["A"].variant = "Wasm" THEN chains["A"].inner
        ELSE chains["A"]).finality_protocol = "Grandpa"

\* the notification is a justification that decodes
GoodNotification(n) == n.result = "Ok" /\ "garbage" \notin DOMAIN n.bytes

RelayTasksSurvive == \A S \in Chains : tasks[S] = "running"

\* C30: no false evidence: the detector submits a Misbehaviour only for a header
\* update whose proof and the proof fetched from S target the same height and
\* commit to different hashes; it submits nothing for another client message, for
\* equal hashes, or for proofs of different heights
NoFalseEvidence ==
    (/\ batches # << >>
     /\ list.call.op = "check_for_misbehaviour"
     /\ list.chain.variant = "Parachain"
     /\ batches[1].submitted # << >>) =>
        LET report == batches[1].submitted[1].client_message
            first == report.first_finality_proof.justification.commit
            second == report.second_finality_proof.justification.commit
        IN  /\ "finality_proof" \in DOMAIN list.call.client_message
            /\ first.target_number = second.target_number
            /\ first.target_hash # second.target_hash

\* C21: the functions behind create-clients, create-connection and create-channel
\* are idempotent: a second invocation for the same chain pair after a successful
\* first one creates nothing more on the chains, leaves the handles as they were
\* and returns the same identifiers
BootstrapIdempotent ==
    (boot.calls > 1 /\ boot.pc = "done" /\ boot.result.result = "Ok") =>
        /\ boot.created = boot.first[1].created
        /\ boot.a = boot.first[1].a
        /\ boot.b = boot.first[1].b
        /\ boot.result = boot.first[1].result

----------------------------------------------------------------------------
(* The pipeline on one finality event, with either update type and configuration *)

\* one iteration of the task whose source is S on an event that may rotate the
\* authority set, with skip_optional_client_updates set or not; `list` keeps what
\* the iteration was given
RelayEvent(S) ==
    \E rotation \in BOOLEAN, skip_optional \in BOOLEAN :
        /\ Iterate(S, rotation, skip_optional)
        /\ list' = [source |-> S, event |-> Head(finality[S]), rotation |-> rotation,
                    skip_optional |-> skip_optional]

NextPipeline ==
    \/ \E S \in Chains : RelayEvent(S)
    \/ \E X \in Chains : Submit(X)

\* both chains at their first blocks, no connection delay, any set of packets sent on
\* A without timeout, any of them already received on B
InitPipeline ==
    \E have \in SUBSET (1..ScanSeqs), got \in SUBSET (1..ScanSeqs) :
        /\ InitScanned(0, 1, [q \in have |-> <<NoTimeout, NoTimeout>>], 1, 1, got, {})
        /\ list = << >>
        /\ batches = << >>
        /\ AuxIdle

SpecPipeline == InitPipeline /\ [][NextPipeline]_vars

----------------------------------------------------------------------------
(* Messages the destination rejects *)

\* what a packet message is about: its kind and the packet
PacketOf(m) == <<m.type_url, m.channel, m.sequence>>

\* the packet messages of the batch `delivered` that the runtime rejects when the
\* batch runs on the ledger `l`: a rejected message leaves the state as it was
RejectedIn(l, remote, delivered) ==
    {PacketOf(delivered[i]) : i \in {j \in 1..Len(delivered) :
        /\ IsPacketMsg(delivered[j])
        /\ LET before == ExecAll(l, remote, SubSeq(delivered, 1, j - 1))
           IN  ExecMsg(before, remote, delivered[j]) = before}}

\* the submitter delivers the oldest batch queued for X; `list` keeps, per chain, the
\* packet messages of the engine that the chain has rejected
SubmitNoting(X) ==
    /\ Deliver(X)
    /\ list' = [list EXCEPT ![X] = @ \cup RejectedIn(NextBlock(ledger[X], ExpectedBlockTime),
                                                     ledger[Other(X)],
                                                     submit(chains[X], Head(queue[X])))]

InitReject ==
    /\ chains = [c \in Chains |->
            IF c = "B"
            THEN WasmChain(ParachainClient(c, ConfiguredClientId[c], ConfiguredWhitelist,
                                           ConfiguredWeight[c]),
                           "code-1", "10-grandpa")
            ELSE ParachainClient(c, ConfiguredClientId[c], ConfiguredWhitelist,
                                 ConfiguredWeight[c])]
    /\ \E delay \in 0..MaxDelay :
        ledger = [c \in Chains |->
            InitLedger(c = "B", delay, IF c \in Senders THEN {UnlistedPacket} ELSE {})]
    /\ finality = [c \in Chains |-> << >>]
    /\ queue = [c \in Chains |-> << >>]
    /\ log = [c \in Chains |-> NoLog]
    /\ list = [c \in Chains |-> {}]
    /\ batches = << >>
    /\ AuxIdle

NextReject ==
    \/ \E X \in Chains : ProduceBlock(X)
    \/ \E X \in Chains : SendPacket(X)
    \/ \E S \in Chains : Iterate(S, FALSE, SkipOptionalClientUpdates) /\ UNCHANGED list
    \/ \E X \in Chains : SubmitNoting(X)
    \/ \E X \in Chains : OtherRelayer(X)

SpecReject == InitReject /\ [][NextReject]_vars

\* the sequence of the packet message `m` is consumed on the ledger `l` it is for: a
\* receive whose receipt is written, an acknowledgement or a timeout whose
\* commitment is cleared
Consumed(l, m) ==
    IF IsRecv(m) THEN HasReceipt(l, m.channel, m.sequence)
    ELSE ~HasCommitment(l, m.channel, m.sequence)

----------------------------------------------------------------------------
(* The relay aborted and started again *)

MaxAborts == 1        \* times the relay is aborted in a run

Up == \A X \in Chains : tasks[X] = "running"

\* an iteration of the running task whose source is S
RelayRunning(S) == tasks[S] = "running" /\ Relay(S)

\* the submitter of the running relay delivers the oldest batch queued for X
SubmitRunning(X) == Up /\ Submit(X)

\* handle.abort(): both tasks stop where they are; the batches they had queued and
\* the events they had not handled yet are lost with them. `list` keeps the sequences
\* sent before the abort and, once started again, those outstanding at the start
Abort ==
    /\ Up
    /\ list.aborts < MaxAborts
    /\ tasks' = [X \in Chains |-> "aborted"]
    /\ queue' = [X \in Chains |-> << >>]
    /\ list' = [list EXCEPT !.aborts = @ + 1,
                            !.before = {q \in 1..MaxSeq : q < ledger["A"].next_sequence_send[ConfiguredWhitelist[1][1]]}]
    /\ UNCHANGED <<chains, ledger, finality, log, batches, inflight, ibc_events,
                   justifications, boot>>

\* relay(chain_a, chain_b) is spawned again with the same handles: the tasks start
\* with nothing queued and subscribe anew, so they see the blocks finalized from now on
Start ==
    /\ ~Up
    /\ tasks' = [X \in Chains |-> "running"]
    /\ finality' = [X \in Chains |-> << >>]
    /\ queue' = [X \in Chains |-> << >>]
    /\ list' = [list EXCEPT !.outstanding = {q \in 1..MaxSeq : Sent(q)}]
    /\ UNCHANGED <<chains, ledger, log, batches, inflight, ibc_events,
                   justifications, boot>>

InitRestart ==
    /\ chains = [c \in Chains |->
            IF c = "B"
            THEN WasmChain(ParachainClient(c, ConfiguredClientId[c], ConfiguredWhitelist,
                                           ConfiguredWeight[c]),
                           "code-1", "10-grandpa")
            ELSE ParachainClient(c, ConfiguredClientId[c], ConfiguredWhitelist,
                                 ConfiguredWeight[c])]
    /\ ledger = [c \in Chains |->
            InitLedger(c = "B", 0, IF c \in Senders THEN {UnlistedPacket} ELSE {})]
    /\ finality = [c \in Chains |-> << >>]
    /\ queue = [c \in Chains |-> << >>]
    /\ log = [c \in Chains |-> NoLog]
    /\ list = [aborts |-> 0, before |-> {}, outstanding |-> {}]
    /\ batches = << >>
    /\ AuxIdle

NextRestart ==
    \/ \E X \in Chains : ProduceBlock(X)
    \/ \E X \in Chains : SendPacket(X)
    \/ \E S \in Chains : RelayRunning(S)
    \/ \E X \in Chains : SubmitRunning(X)
    \/ Abort
    \/ Start

\* the chains keep producing blocks, an aborted relay is started again, and the
\* tasks and the submitter of a running relay keep running
SpecRestart == InitRestart /\ [][NextRestart]_vars /\ Fairness /\ []<>Up

\* C23: the relay is memoryless. A packet whose commitment is outstanding on A while
\* no relay task runs - sent before the abort or while the relay was down - is
\* relayed by the tasks started afterwards from the on-chain state alone: it makes
\* the round trip, unless it reached its timeout on B before it was received there
RestartRelaysOutstanding ==
    \A q \in 1..MaxSeq : (~Up /\ Sent(q)) ~> (RoundTripDone(q) \/ Lapsed(q))

\* a packet sent while the relay was down and outstanding when it was started again
\* has made the round trip
RestartWitness ==
    /\ Up
    /\ \E q \in list.outstanding \ list.before : RoundTripDone(q)

----------------------------------------------------------------------------
(* Connection and channel handshakes, and the closing of a channel *)

CONN_OPEN_INIT_TYPE_URL == "/ibc.core.connection.v1.MsgConnectionOpenInit"

CONN_OPEN_CONFIRM_TYPE_URL == "/ibc.core.connection.v1.MsgConnectionOpenConfirm"

CHAN_OPEN_INIT_TYPE_URL == "/ibc.core.channel.v1.MsgChannelOpenInit"

CHAN_OPEN_TRY_TYPE_URL == "/ibc.core.channel.v1.MsgChannelOpenTry"

CHAN_OPEN_ACK_TYPE_URL == "/ibc.core.channel.v1.MsgChannelOpenAck"

CHAN_OPEN_CONFIRM_TYPE_URL == "/ibc.core.channel.v1.MsgChannelOpenConfirm"

CHAN_CLOSE_INIT_TYPE_URL == "/ibc.core.channel.v1.MsgChannelCloseInit"

CHAN_CLOSE_CONFIRM_TYPE_URL == "/ibc.core.channel.v1.MsgChannelCloseConfirm"

\* the standard handlers of the handshake messages: the end of `object` must be in
\* state `from`, the counterparty must prove the event `proves` (none for a message
\* that starts a handshake or a close), the end moves to `to` and `emits` is emitted
Handlers ==
    (CONN_OPEN_INIT_TYPE_URL :> [object |-> "connection", from |-> "Uninit", proves |-> "None", to |-> "Init", emits |-> "OpenInit"])
    @@ (CONN_OPEN_TRY_TYPE_URL :> [object |-> "connection", from |-> "Uninit", proves |-> "OpenInit", to |-> "TryOpen", emits |-> "OpenTry"])
    @@ (CONN_OPEN_ACK_TYPE_URL :> [object |-> "connection", from |-> "Init", proves |-> "OpenTry", to |-> "Open", emits |-> "OpenAck"])
    @@ (CONN_OPEN_CONFIRM_TYPE_URL :> [object |-> "connection", from |-> "TryOpen", proves |-> "OpenAck", to |-> "Open", emits |-> "OpenConfirm"])
    @@ (CHAN_OPEN_INIT_TYPE_URL :> [object |-> "channel", from |-> "Uninit", proves |-> "None", to |-> "Init", emits |-> "OpenInit"])
    @@ (CHAN_OPEN_TRY_TYPE_URL :> [object |-> "channel", from |-> "Uninit", proves |-> "OpenInit", to |-> "TryOpen", emits |-> "OpenTry"])
    @@ (CHAN_OPEN_ACK_TYPE_URL :> [object |-> "channel", from |-> "Init", proves |-> "OpenTry", to |-> "Open", emits |-> "OpenAck"])
    @@ (CHAN_OPEN_CONFIRM_TYPE_URL :> [object |-> "channel", from |-> "TryOpen", proves |-> "OpenAck", to |-> "Open", emits |-> "OpenConfirm"])
    @@ (CHAN_CLOSE_INIT_TYPE_URL :> [object |-> "channel", from |-> "Open", proves |-> "None", to |-> "Closed", emits |-> "CloseInit"])
    @@ (CHAN_CLOSE_CONFIRM_TYPE_URL :> [object |-> "channel", from |-> "Open", proves |-> "CloseInit", to |-> "Closed", emits |-> "CloseConfirm"])

IsHandshakeMsg(m) == m.type_url \in DOMAIN Handlers

\* a handshake message: the object it is about, the counterparty's client state
\* (an Option, a sequence of at most one), the height its proofs are rooted at
HandshakeMsg(url, client_state, proof_height, signer) ==
    [type_url |-> url, client_state |-> client_state, proof_height |-> proof_height,
     signer |-> signer]

\* MsgChannelCloseInit for the whitelisted channel
MsgChannelCloseInit(signer) == HandshakeMsg(CHAN_CLOSE_INIT_TYPE_URL, << >>, 0, signer)

\* the ledger of a chain whose connection and channel ends are in these states,
\* with the handshake events it has emitted so far
WithEnds(l, connection, channel) ==
    [k \in DOMAIN l \cup {"ends", "events"} |->
        IF k = "ends" THEN [connection |-> connection, channel |-> channel]
        ELSE IF k = "events" THEN {}
        ELSE l[k]]

\* the counterparty emitted the event by the block the proof is rooted at
EventProved(remote, height, object, kind) ==
    \E e \in remote.events : e.object = object /\ e.kind = kind /\ e.at <= height

\* the on-chain handler of a handshake message; a channel is opened on an open
\* connection; a rejected message leaves the state as it was
ExecHandshake(l, remote, m) ==
    LET h == Handlers[m.type_url]
    IN  IF /\ l.ends[h.object] = h.from
           /\ (h.object = "channel" /\ h.from = "Uninit") => l.ends.connection = "Open"
           /\ h.proves # "None" =>
                /\ verify_height(l, m.proof_height)
                /\ ConsensusAt(l, m.proof_height) # {}
                /\ EventProved(remote, m.proof_height, h.object, h.proves)
        THEN [l EXCEPT !.ends[h.object] = h.to,
                       !.events = @ \cup {[object |-> h.object, kind |-> h.emits, at |-> l.height]}]
        ELSE l

\* ibc.deliver with the handshake messages routed too
ExecAny(l, remote, m) ==
    IF IsHandshakeMsg(m) THEN ExecHandshake(l, remote, m) ELSE ExecMsg(l, remote, m)

RECURSIVE ExecAllAny(_, _, _)
ExecAllAny(l, remote, msgs) ==
    IF msgs = << >> THEN l
    ELSE ExecAllAny(ExecAny(l, remote, Head(msgs)), remote, Tail(msgs))

\* a faulty builder, which knows the opening handshakes only
BuiltFromOpening ==
    [object \in {"connection", "channel"} |->
        IF object = "connection"
        THEN ("OpenInit" :> CONN_OPEN_TRY_TYPE_URL) @@ ("OpenTry" :> CONN_OPEN_ACK_TYPE_URL)
             @@ ("OpenAck" :> CONN_OPEN_CONFIRM_TYPE_URL)
        ELSE ("OpenInit" :> CHAN_OPEN_TRY_TYPE_URL) @@ ("OpenTry" :> CHAN_OPEN_ACK_TYPE_URL)
             @@ ("OpenAck" :> CHAN_OPEN_CONFIRM_TYPE_URL)]

\* the message the builder produces for the destination from an event of the source
BuiltFrom ==
    [object \in {"connection", "channel"} |->
        IF object = "connection"
        THEN ("OpenInit" :> CONN_OPEN_TRY_TYPE_URL) @@ ("OpenTry" :> CONN_OPEN_ACK_TYPE_URL)
             @@ ("OpenAck" :> CONN_OPEN_CONFIRM_TYPE_URL)
        ELSE ("OpenInit" :> CHAN_OPEN_TRY_TYPE_URL) @@ ("OpenTry" :> CHAN_OPEN_ACK_TYPE_URL)
             @@ ("OpenAck" :> CHAN_OPEN_CONFIRM_TYPE_URL)
             @@ ("CloseInit" :> CHAN_CLOSE_CONFIRM_TYPE_URL)]

\* the events a chain can emit, in the order the protocol lets them occur
EventOrder ==
    [i \in 1..4 |-> [object |-> "connection",
                     kind |-> <<"OpenInit", "OpenTry", "OpenAck", "OpenConfirm">>[i]]]
    \o [i \in 1..6 |-> [object |-> "channel",
                        kind |-> <<"OpenInit", "OpenTry", "OpenAck", "OpenConfirm",
                                   "CloseInit", "CloseConfirm">>[i]]]

\* query_latest_ibc_events: the events of the source between the latest height of
\* its client on the destination and the finalized height
LatestIbcEvents(source, sink, f) ==
    SelectSeq(EventOrder, LAMBDA e :
        \E x \in ledger[name(source)].events :
            /\ x.object = e.object /\ x.kind = e.kind
            /\ x.at > ledger[name(sink)].latest_height /\ x.at <= f.height)

\* a faulty pipeline, which builds nothing from an OpenAck
HandshakeMessagesWithoutConfirm(source, sink, f) ==
    LET events == SelectSeq(LatestIbcEvents(source, sink, f),
                            LAMBDA e : e.kind \in DOMAIN BuiltFrom[e.object] \ {"OpenAck"})
    IN  [i \in 1..Len(events) |->
            HandshakeMsg(BuiltFrom[events[i].object][events[i].kind],
                         IF events[i].object = "connection"
                         THEN <<[variant |-> "Grandpa", latest_height |-> f.height]>>
                         ELSE << >>,
                         f.height, account_id(sink))]

\* pipeline steps 3 and 4: the destination-side message of every event that has one,
\* with the counterparty's client state and proofs at the finalized height
HandshakeMessages(source, sink, f) ==
    LET events == SelectSeq(LatestIbcEvents(source, sink, f),
                            LAMBDA e : e.kind \in DOMAIN BuiltFrom[e.object])
    IN  [i \in 1..Len(events) |->
            HandshakeMsg(BuiltFrom[events[i].object][events[i].kind],
                         IF events[i].object = "connection" /\ events[i].kind # "OpenAck"
                         THEN <<[variant |-> "Grandpa", latest_height |-> f.height]>>
                         ELSE << >>,
                         f.height, account_id(sink))]

\* one iteration of the task whose source is S with the handshake step of the
\* pipeline: the client update, then the handshake messages, then the packet
\* messages; events to relay make the update one that is not skipped
IterateEvents(S) ==
    /\ RelayEnabled(S)
    /\ LET D == Other(S)
           source == chains[S]
           sink == chains[D]
           f == Head(finality[S])
           handshake_msgs == HandshakeMessages(source, sink, f)
           packet_msgs == ScanPackets(source, sink, f)
           to_sink == IF handshake_msgs = << >> /\ packet_msgs = << >>
                         /\ SkipOptionalClientUpdates
                      THEN << >>
                      ELSE <<MsgUpdateAnyClient(client_id(source), f, account_id(sink))>>
                           \o handshake_msgs \o MessagesFor(packet_msgs, account_id(sink))
           to_source == MessagesFor(packet_msgs, account_id(source))
       IN  /\ finality' = [finality EXCEPT ![S] = Tail(@)]
           /\ queue' = [queue EXCEPT ![D] = @ \o Batches(sink, to_sink),
                                     ![S] = @ \o Batches(source, to_source)]
           /\ UNCHANGED <<chains, ledger, log, list, batches, aux>>

\* the chain X runs the transaction `msgs` in a new block and notifies its finality
Transact(X, msgs) ==
    LET l == [ledger[X] EXCEPT !.height = @ + 1, !.time = @ + ExpectedBlockTime]
    IN  /\ ledger' = [ledger EXCEPT ![X] = ExecAllAny(l, ledger[Other(X)], msgs)]
        /\ finality' = [finality EXCEPT ![X] = Notify(@, l)]

\* the submitter delivers the oldest batch queued for X
DeliverAny(X) ==
    /\ queue[X] # << >>
    /\ queue' = [queue EXCEPT ![X] = Tail(@)]
    /\ Transact(X, submit(chains[X], Head(queue[X])))
    /\ UNCHANGED <<chains, log, list, batches, aux>>

\* create_connection, create_channel: the OpenInit message is submitted to chain_a;
\* the channel is created once the connection handshake is seen complete
OpenInit(object) ==
    /\ ledger["A"].ends[object] = "Uninit"
    /\ object = "channel" => \A X \in Chains : ledger[X].ends.connection = "Open"
    /\ Transact("A", submit(chains["A"],
            <<HandshakeMsg(IF object = "connection" THEN CONN_OPEN_INIT_TYPE_URL
                           ELSE CHAN_OPEN_INIT_TYPE_URL, << >>, 0, account_id(chains["A"]))>>))
    /\ UNCHANGED <<chains, queue, log, list, batches, aux>>

\* send_channel_close_init_and_assert_channel_close_confirm: ChannelCloseInit is
\* submitted to chain_a for the open channel
CloseInit ==
    /\ \A X \in Chains : ledger[X].ends.channel = "Open"
    /\ Transact("A", submit(chains["A"], <<MsgChannelCloseInit(account_id(chains["A"]))>>))
    /\ UNCHANGED <<chains, queue, log, list, batches, aux>>

\* a block with no IBC transaction in it, within the model's horizon of such blocks
EmptyBlock(X) == ledger[X].height < MaxHeight /\ ProduceBlock(X)

\* both chains with no connection between them yet, both relay tasks running
InitHandshake ==
    /\ chains = [c \in Chains |->
            IF c = "B"
            THEN WasmChain(ParachainClient(c, ConfiguredClientId[c], ConfiguredWhitelist,
                                           ConfiguredWeight[c]),
                           "code-1", "10-grandpa")
            ELSE ParachainClient(c, ConfiguredClientId[c], ConfiguredWhitelist,
                                 ConfiguredWeight[c])]
    /\ ledger = [c \in Chains |-> WithEnds(InitLedger(c = "B", 0, {}), "Uninit", "Uninit")]
    /\ finality = [c \in Chains |-> << >>]
    /\ queue = [c \in Chains |-> << >>]
    /\ log = [c \in Chains |-> NoLog]
    /\ list = << >>
    /\ batches = << >>
    /\ AuxIdle

NextHandshake ==
    \/ \E object \in {"connection", "channel"} : OpenInit(object)
    \/ CloseInit
    \/ \E X \in Chains : EmptyBlock(X)
    \/ \E S \in Chains : IterateEvents(S)
    \/ \E X \in Chains : DeliverAny(X)

\* both relay tasks and the submitter keep running
RelayFairness ==
    \A X \in Chains :
        /\ ([]<>~RelayEnabled(X)) \/ ([]<><<IsRelayStep(X)>>_vars)
        /\ ([]<>(queue[X] = << >>)) \/ ([]<><<IsSubmitStep(X)>>_vars)

SpecHandshake == InitHandshake /\ [][NextHandshake]_vars /\ RelayFairness

\* how far an end has come
Progress(state) ==
    CASE state = "Uninit" -> 0 [] state = "Init" -> 1 [] state = "TryOpen" -> 2
      [] state = "Open" -> 3 [] state = "Closed" -> 4

\* the events of the handshake of `object` occur in the order OpenInit(A), OpenTry(B),
\* OpenAck(A), OpenConfirm(B)
HandshakeOrder(object) ==
    LET a == ledger["A"].ends[object]
        b == ledger["B"].ends[object]
    IN  /\ a \in {"Uninit", "Init", "Open", "Closed"}
        /\ b \in {"Uninit", "TryOpen", "Open", "Closed"}
        /\ b # "Uninit" => a # "Uninit"
        /\ Progress(a) >= 3 => Progress(b) >= 2
        /\ Progress(b) >= 3 => Progress(a) >= 3
        /\ \A X \in Chains : \A e \in ledger[X].events :
                (e.object = object /\ e.kind \in {"OpenInit", "OpenAck"}) => X = "A"
        /\ \A X \in Chains : \A e \in ledger[X].events :
                (e.object = object /\ e.kind \in {"OpenTry", "OpenConfirm"}) => X = "B"

\* C25: handshake advancement. A connection or channel handshake started by an
\* OpenInit on A is driven to completion while both relay tasks run: the events occur
\* in the order OpenInit(A), OpenTry(B), OpenAck(A), OpenConfirm(B), no end ever
\* moves backwards, and both ends eventually are open
HandshakeAdvances ==
    /\ [](\A object \in {"connection", "channel"} : HandshakeOrder(object))
    /\ [][\A X \in Chains : \A object \in {"connection", "channel"} :
            Progress(ledger'[X].ends[object]) >= Progress(ledger[X].ends[object])]_vars
    /\ \A object \in {"connection", "channel"} :
            (ledger["A"].ends[object] = "Init")
                ~> (\A X \in Chains : Progress(ledger[X].ends[object]) >= 3)

\* both handshakes are complete: connection and channel are open on both chains
HandshakeWitness ==
    \A X \in Chains : ledger[X].ends = [connection |-> "Open", channel |-> "Open"]

\* C26: channel close. After a ChannelCloseInit on A the relay submits
\* ChannelCloseConfirm to B: the channel ends up closed on both chains
ChannelCloses ==
    (ledger["A"].ends.channel = "Closed") ~> (ledger["B"].ends.channel = "Closed")

\* the channel is closed on both chains, on B by the ChannelCloseConfirm
ChannelClosesWitness ==
    /\ ledger["A"].ends.channel = "Closed"
    /\ \E e \in ledger["B"].events : e.object = "channel" /\ e.kind = "CloseConfirm"

----------------------------------------------------------------------------
(* Packets outstanding when the channel closes *)

\* MsgTimeoutOnClose: the packet, the proof that the counterparty has not received
\* it and the proof that the counterparty's channel end is closed, both rooted at
\* `proof_height`
MsgTimeoutOnClose(p, proof_height, signer) ==
    [type_url |-> TIMEOUT_ON_CLOSE_TYPE_URL, channel |-> p.channel, port |-> p.port,
     sequence |-> p.sequence, proof_height |-> proof_height,
     proof_unreceived |-> <<"receipt", p.channel, p.sequence, proof_height>>,
     proof_close |-> <<"channel", p.channel, proof_height>>,
     signer |-> signer]

\* the counterparty's channel end was closed by the block the proof is rooted at
ClosedProved(remote, height) ==
    \/ EventProved(remote, height, "channel", "CloseInit")
    \/ EventProved(remote, height, "channel", "CloseConfirm")

\* the on-chain handler of MsgTimeoutOnClose: the packet is committed, the
\* counterparty has not received it and its channel end is closed; clears the
\* commitment
ExecTimeoutOnClose(l, remote, m) ==
    IF /\ HasCommitment(l, m.channel, m.sequence)
       /\ m.proof_unreceived = <<"receipt", m.channel, m.sequence, m.proof_height>>
       /\ m.proof_close = <<"channel", m.channel, m.proof_height>>
       /\ ConsensusAt(l, m.proof_height) # {}
       /\ verify_packet_receipt_absence(l, remote, m.proof_height, m.channel, m.sequence)
       /\ ClosedProved(remote, m.proof_height)
    THEN [l EXCEPT !.commitments = @ \ {CommittedPacket(l, m.channel, m.sequence)},
                   !.timed_out = @ \cup {<<m.channel, m.sequence>>}]
    ELSE l

\* ibc.deliver on a chain with channel ends: a packet is received on an open channel
\* only
ExecOnChannel(l, remote, m) ==
    IF m.type_url = TIMEOUT_ON_CLOSE_TYPE_URL THEN ExecTimeoutOnClose(l, remote, m)
    ELSE IF IsRecv(m) /\ l.ends.channel # "Open" THEN l
    ELSE ExecAny(l, remote, m)

RECURSIVE ExecAllOnChannel(_, _, _)
ExecAllOnChannel(l, remote, msgs) ==
    IF msgs = << >> THEN l
    ELSE ExecAllOnChannel(ExecOnChannel(l, remote, Head(msgs)), remote, Tail(msgs))

\* a faulty scanner, which does not look at the counterparty's channel end
ChannelMessagesIgnoringClose(source, sink, f, view) == ChannelMessages(source, sink, f, view)

\* scanner step 7: when the channel is closed on the destination every packet still
\* outstanding there is timed out on close, with proofs rooted at the latest height
\* the source's client of the destination has reached, and none is sent to be
\* received; otherwise the messages of steps 1 to 6
ChannelMessagesOnClose(source, sink, f, view) ==
    LET acked == {[channel |-> view.channel, port |-> view.port, sequence |-> q] :
                    q \in view.unreceived_acks}
        seqs == Ascending({p.sequence : p \in view.packets})
        proof_height == ledger[name(source)].latest_height
    IN  IF ledger[name(sink)].ends.channel = "Closed"
        THEN [i \in 1..Len(seqs) |->
                MsgTimeoutOnClose(CHOOSE p \in view.packets : p.sequence = seqs[i],
                                  proof_height, account_id(source))]
             \o PacketMsgs(ACK_PACKET_TYPE_URL, acked, f.height, account_id(sink))
        ELSE ChannelMessages(source, sink, f, view)

\* the packet scanner with step 7
ScanPacketsOnClose(source, sink, f) ==
    LET whitelist == channel_whitelist(source)
    IN  Flatten([i \in 1..Len(whitelist) |->
            ChannelMessagesOnClose(source, sink, f,
                ScanView(source, sink, f, whitelist[i][1], whitelist[i][2]))])

\* the events of the source the destination has not been told of: those above the
\* latest height of the source's client there; the last block of the model's horizon
\* stands for every later block
UnrelayedIbcEvents(source, sink, f) ==
    SelectSeq(EventOrder, LAMBDA e :
        \E x \in ledger[name(source)].events :
            /\ x.object = e.object /\ x.kind = e.kind /\ x.at <= f.height
            /\ (x.at > ledger[name(sink)].latest_height \/ x.at = MaxHeight))

\* one iteration of the task whose source is S on an event that may rotate the
\* authority set: the client update, the ChannelCloseConfirm of a CloseInit, the
\* packet messages
IterateOnClose(S) ==
    \E rotation \in BOOLEAN :
        /\ RelayEnabled(S)
        /\ LET D == Other(S)
               source == chains[S]
               sink == chains[D]
               f == Head(finality[S])
               events == SelectSeq(UnrelayedIbcEvents(source, sink, f),
                                   LAMBDA e : e.kind \in DOMAIN BuiltFrom[e.object])
               handshake_msgs == [i \in 1..Len(events) |->
                    HandshakeMsg(BuiltFrom[events[i].object][events[i].kind], << >>,
                                 f.height, account_id(sink))]
               packet_msgs == ScanPacketsOnClose(source, sink, f)
               to_sink == IF ~rotation /\ handshake_msgs = << >> /\ packet_msgs = << >>
                             /\ SkipOptionalClientUpdates
                          THEN << >>
                          ELSE <<MsgUpdateAnyClient(client_id(source), f, account_id(sink))>>
                               \o handshake_msgs \o MessagesFor(packet_msgs, account_id(sink))
               to_source == MessagesFor(packet_msgs, account_id(source))
           IN  /\ finality' = [finality EXCEPT ![S] = Tail(@)]
               /\ queue' = [queue EXCEPT ![D] = @ \o Batches(sink, to_sink),
                                         ![S] = @ \o Batches(source, to_source)]
               /\ UNCHANGED <<chains, ledger, log, list, batches, aux>>

\* the chain X runs the transaction `msgs` in its next block, within the horizon
TransactOnChannel(X, msgs) ==
    LET l == NextBlock(ledger[X], ExpectedBlockTime)
    IN  /\ ledger' = [ledger EXCEPT ![X] = ExecAllOnChannel(l, ledger[Other(X)], msgs)]
        /\ finality' = [finality EXCEPT ![X] = Notify(@, l)]

\* the submitter delivers the oldest batch queued for X
DeliverOnChannel(X) ==
    /\ queue[X] # << >>
    /\ queue' = [queue EXCEPT ![X] = Tail(@)]
    /\ TransactOnChannel(X, submit(chains[X], Head(queue[X])))
    /\ UNCHANGED <<chains, log, list, batches, aux>>

MaxOnClose == 1       \* packets sent on the channel before it closes

\* an application on X sends a packet without timeout on the open channel
SendOnChannel(X) ==
    LET l == NextBlock(ledger[X], ExpectedBlockTime)
        ch == ConfiguredWhitelist[1][1]
        seq == l.next_sequence_send[ch]
    IN  /\ X \in Senders
        /\ ledger[X].ends.channel = "Open"
        /\ seq <= Min(MaxOnClose, MaxSeq)
        /\ ledger' = [ledger EXCEPT ![X] =
                [l EXCEPT !.commitments = @ \cup
                            {[channel |-> ch, port |-> Port, sequence |-> seq,
                              timeout_height |-> NoTimeout, timeout_timestamp |-> NoTimeout,
                              at |-> l.height]},
                          !.next_sequence_send[ch] = seq + 1]]
        /\ finality' = [finality EXCEPT ![X] = Notify(@, l)]
        /\ UNCHANGED <<chains, queue, log, list, batches, aux>>

\* a block of X with no IBC transaction in it
NewBlock(X) ==
    /\ TransactOnChannel(X, << >>)
    /\ UNCHANGED <<chains, queue, log, list, batches, aux>>

\* ChannelCloseInit is submitted to X for the open channel
CloseInitOn(X) ==
    /\ ledger[X].ends.channel = "Open"
    /\ TransactOnChannel(X, submit(chains[X], <<MsgChannelCloseInit(account_id(chains[X]))>>))
    /\ UNCHANGED <<chains, queue, log, list, batches, aux>>

\* connection and channel open on both chains, no packet sent yet
InitClose ==
    /\ chains = [c \in Chains |->
            IF c = "B"
            THEN WasmChain(ParachainClient(c, ConfiguredClientId[c], ConfiguredWhitelist,
                                           ConfiguredWeight[c]),
                           "code-1", "10-grandpa")
            ELSE ParachainClient(c, ConfiguredClientId[c], ConfiguredWhitelist,
                                 ConfiguredWeight[c])]
    /\ ledger = [c \in Chains |-> WithEnds(InitLedger(c = "B", 0, {}), "Open", "Open")]
    /\ finality = [c \in Chains |-> << >>]
    /\ queue = [c \in Chains |-> << >>]
    /\ log = [c \in Chains |-> NoLog]
    /\ list = << >>
    /\ batches = << >>
    /\ AuxIdle

NextClose ==
    \/ \E X \in Chains : NewBlock(X)
    \/ \E X \in Chains : SendOnChannel(X)
    \/ \E X \in Chains : CloseInitOn(X)
    \/ \E S \in Chains : IterateOnClose(S)
    \/ \E X \in Chains : DeliverOnChannel(X)

\* the chains keep producing blocks, the tasks and the submitter keep running
SpecClose ==
    /\ InitClose /\ [][NextClose]_vars /\ RelayFairness
    /\ \A S \in Chains : WF_vars(NewBlock(S))

\* each task keeps handing client updates on: the authority set of its source keeps
\* rotating, or it keeps finding messages to relay
UpdatesKeepComing ==
    \A S \in Chains : []<><<IsRelayStep(S) /\ queue'[Other(S)] # queue[Other(S)]>>_vars

\* the packets of A's whitelisted channel that are committed on A and unreceived on B
OutstandingOnClose(q) ==
    /\ Sent(q)
    /\ ~HasReceipt(ledger["B"], ConfiguredWhitelist[1][1], q)
    /\ ledger["B"].ends.channel = "Closed"

\* when the channel is closed on B, an iteration of A's task schedules for each packet
\* outstanding at the finalized height a TimeoutOnClose to A that carries the
\* non-receipt proof and the closed-channel proof, and no RecvPacket to B
TimeoutOnCloseScheduled ==
    [][IsRelayStep("A") =>
        \A q \in 1..MaxSeq :
            (OutstandingOnClose(q)
                /\ CommittedPacket(ledger["A"], ConfiguredWhitelist[1][1], q).at
                        <= Head(finality["A"]).height) =>
                /\ \E i \in 1..Len(Scheduled("A")) :
                    LET m == Scheduled("A")[i]
                    IN  /\ m.type_url = TIMEOUT_ON_CLOSE_TYPE_URL
                        /\ m.channel = ConfiguredWhitelist[1][1] /\ m.sequence = q
                        /\ m.proof_unreceived = <<"receipt", m.channel, q, m.proof_height>>
                        /\ m.proof_close = <<"channel", m.channel, m.proof_height>>
                /\ \A i \in 1..Len(Scheduled("B")) :
                    ~(IsRecv(Scheduled("B")[i]) /\ Scheduled("B")[i].sequence = q)]_vars

----------------------------------------------------------------------------
(* The block the detector asks the finality proof of *)

\* C31: the block for which the detector fetches S's own finality proof is the
\* target height of the submitted header (the greatest number among its
\* unknown_headers) when that height is finalized on S, and the latest finalized
\* block when the target exceeds it
ProofIsOfTarget ==
    (/\ batches # << >>
     /\ list.call.op = "check_for_misbehaviour"
     /\ list.chain.variant = "Parachain"
     /\ IsHeader(list.call.client_message)
     /\ list.call.client_message.finality_proof.unknown_headers # << >>
     /\ list.call.node.block = "Ok") =>
        LET unknown == list.call.client_message.finality_proof.unknown_headers
            target == SetMax({unknown[i].number : i \in 1..Len(unknown)})
            latest_finalized == list.call.node.number
        IN  ProofBlockNumber(target, latest_finalized)
                = IF target <= latest_finalized THEN target ELSE latest_finalized

----------------------------------------------------------------------------
(* What create_connection and create_channel leave behind *)

\* the first event of the stream of this kind whose counterparty id is `counterparty_id`
FirstMatching(stream, kind, counterparty_id) ==
    LET hits == {i \in 1..Len(stream) : /\ stream[i].kind = kind
                                        /\ stream[i].counterparty_id = <<counterparty_id>>}
    IN  IF hits = {} THEN << >> ELSE <<stream[SetMin(hits)]>>

\* the function is between its two waits: the id of B is that of the first OpenTry
\* event seen whose counterparty is the id of A
TryIdTaken(fn, try) ==
    (BootAt(fn, "await_confirm")) =>
        LET first == FirstMatching(boot.seen.stream, try, boot.ids[1])
        IN  first # << >> /\ first[1].id = <<boot.ids[2]>>

\* C32: when create_connection(A, B, delay) returns (conn_a, conn_b), exactly one
\* ConnectionOpenInit was submitted to A, A.connection_id() is conn_a, the id that
\* transaction produced, and was set before any event was awaited, B.connection_id()
\* is conn_b, the id of the first OpenTryConnection event on B whose counterparty is
\* conn_a, and an OpenConfirmConnection event of conn_b with counterparty conn_a was
\* seen on B before the function returned
ConnectionCreated ==
    /\ (boot.fn = "create_connection" /\ boot.pc \in {"await_try", "await_confirm"}) =>
            /\ connection_id(boot.a) = boot.ids[1]
            /\ boot.ids[1] = boot.created.a[Len(boot.created.a)]
    /\ TryIdTaken("create_connection", "OpenTryConnection")
    /\ (BootAt("create_connection", "done") /\ boot.result.result = "Ok") =>
            LET conn_a == boot.result.value[1]
                conn_b == boot.result.value[2]
            IN  /\ Len(boot.sent.a) = 1 /\ Len(boot.sent.a[1]) = 1
                /\ boot.sent.a[1][1].type_url = CONN_OPEN_INIT_TYPE_URL
                /\ boot.sent.b = << >>
                /\ connection_id(boot.a) = conn_a
                /\ conn_a = boot.created.a[Len(boot.created.a)]
                /\ connection_id(boot.b) = conn_b
                /\ boot.ids = <<conn_a, conn_b>>
                /\ HandshakeEvent("OpenConfirmConnection", <<conn_b>>, <<conn_a>>)
                        \in Range(boot.seen.stream)

\* C33: when create_channel(A, B, ..) returns (chan_a, chan_b), exactly one
\* ChannelOpenInit was submitted to A, (chan_a, port) of that transaction was added
\* to A's whitelist, (chan_b, port) of the first OpenTryChannel event on B whose
\* counterparty is chan_a was added to B's, the entries the whitelists had are kept,
\* and an OpenConfirmChannel event of chan_b with counterparty chan_a was seen on B
\* before the function returned
ChannelCreated ==
    /\ TryIdTaken("create_channel", "OpenTryChannel")
    /\ (BootAt("create_channel", "done") /\ boot.result.result = "Ok") =>
            LET chan_a == boot.result.value[1]
                chan_b == boot.result.value[2]
                list_a == channel_whitelist(boot.a)
                list_b == channel_whitelist(boot.b)
                Kept(before, after) ==
                    Len(before) < Len(after) /\ SubSeq(after, 1, Len(before)) = before
            IN  /\ Len(boot.sent.a) = 1 /\ Len(boot.sent.a[1]) = 1
                /\ boot.sent.a[1][1].type_url = CHAN_OPEN_INIT_TYPE_URL
                /\ boot.sent.b = << >>
                /\ chan_a = boot.created.a[Len(boot.created.a)]
                /\ Len(list_a) = boot.calls /\ list_a[Len(list_a)] = <<chan_a, Port>>
                /\ Len(list_b) = boot.calls /\ list_b[Len(list_b)] = <<chan_b, Port>>
                /\ boot.first # << >> =>
                        /\ Kept(channel_whitelist(boot.first[1].a), list_a)
                        /\ Kept(channel_whitelist(boot.first[1].b), list_b)
                /\ HandshakeEvent("OpenConfirmChannel", <<chan_b>>, <<chan_a>>)
                        \in Range(boot.seen.stream)

\* C39: create_clients leaves no partial bootstrap state on failure: when it
\* returns an error at any step, neither handle's client id differs from its value
\* before the call
NoPartialBootstrap ==
    (BootAt("create_clients", "done") /\ boot.calls = 1 /\ boot.result.result = "Err") =>
        /\ client_id(boot.a) = NoClientId
        /\ client_id(boot.b) = NoClientId

----------------------------------------------------------------------------
(* The bootstrap helpers running next to the relayer: create_connection and then
   create_channel submit their OpenInit to A and wait on the events of B while
   the relay tasks drive the handshake *)

\* the object a bootstrap function sets up
ObjectOf(fn) == IF fn = "create_connection" THEN "connection" ELSE "channel"

\* chain_b.ibc_events().await: a new subscription, which yields the events of the
\* blocks B produces after the block it is at when the subscription is opened
SubscribedAt(l) == l.height

\* the subscription opened at `cursor` has yielded an event of this kind
Yielded(l, cursor, object, kind) ==
    \E e \in l.events : e.object = object /\ e.kind = kind /\ e.at > cursor

\* lines 107-119 and 182-198: the OpenInit is submitted to A and is in a block when
\* submit returns; the id of the transaction is set on A's handle
HelperOpenInit ==
    /\ boot.pc = "start"
    /\ ledger["A"].ends[ObjectOf(boot.fn)] = "Uninit"
    /\ Transact("A", submit(chains["A"],
            <<HandshakeMsg(IF boot.fn = "create_connection" THEN CONN_OPEN_INIT_TYPE_URL
                           ELSE CHAN_OPEN_INIT_TYPE_URL, << >>, 0, account_id(chains["A"]))>>))
    /\ boot' = [boot EXCEPT !.pc = "subscribe_try",
                            !.a = IF boot.fn = "create_connection"
                                  THEN set_connection_id(@, "id-0")
                                  ELSE add_channel_to_whitelist(@, <<"id-0", Port>>)]
    /\ UNCHANGED <<chains, queue, log, list, batches, inflight, ibc_events, tasks, justifications>>

\* lines 124-126, 149-151, 202-204 and 225-227: each wait opens a subscription of
\* its own
HelperSubscribe ==
    /\ boot.pc \in {"subscribe_try", "subscribe_confirm"}
    /\ boot' = [boot EXCEPT !.pc = IF @ = "subscribe_try" THEN "await_try" ELSE "await_confirm",
                            !.cursor = SubscribedAt(ledger["B"])]
    /\ UNCHANGED <<chains, ledger, finality, queue, log, list, batches, inflight, ibc_events, tasks, justifications>>

\* the wait ends when its subscription yields the event it looks for: after the
\* OpenTry the id of B is set on B's handle, after the OpenConfirm the function
\* returns
HelperAwait ==
    /\ boot.pc \in {"await_try", "await_confirm"}
    /\ Yielded(ledger["B"], boot.cursor, ObjectOf(boot.fn),
               IF boot.pc = "await_try" THEN "OpenTry" ELSE "OpenConfirm")
    /\ boot' = IF boot.pc = "await_try"
               THEN [boot EXCEPT !.pc = "subscribe_confirm",
                                 !.b = IF boot.fn = "create_connection"
                                       THEN set_connection_id(@, "id-1")
                                       ELSE add_channel_to_whitelist(@, <<"id-1", Port>>)]
               ELSE [boot EXCEPT !.pc = "done", !.result = Ok(<<"id-0", "id-1">>)]
    /\ UNCHANGED <<chains, ledger, finality, queue, log, list, batches, inflight, ibc_events, tasks, justifications>>

\* timeout_future: the deadline of a wait passes; it is taken to pass only once the
\* handshake is complete on both chains, when no event of it is to come
HelperDeadline ==
    /\ boot.pc \in {"await_try", "await_confirm"}
    /\ \A X \in Chains : ledger[X].ends[ObjectOf(boot.fn)] = "Open"
    /\ ~Yielded(ledger["B"], boot.cursor, ObjectOf(boot.fn),
                IF boot.pc = "await_try" THEN "OpenTry" ELSE "OpenConfirm")
    /\ boot' = [boot EXCEPT !.pc = "done",
                            !.result = timeout_future([finished |-> FALSE, output |-> << >>],
                                                      "Didn't see the event")]
    /\ UNCHANGED <<chains, ledger, finality, queue, log, list, batches, inflight, ibc_events, tasks, justifications>>

\* the caller goes on from create_connection to create_channel
HelperCreateChannel ==
    /\ boot.fn = "create_connection" /\ boot.pc = "done" /\ boot.result.result = "Ok"
    /\ boot' = [boot EXCEPT !.fn = "create_channel", !.pc = "start", !.result = Running]
    /\ UNCHANGED <<chains, ledger, finality, queue, log, list, batches, inflight, ibc_events, tasks, justifications>>

\* both chains with no connection between them, both relay tasks running, and
\* create_connection called with handles of its own
InitWait ==
    /\ chains = [c \in Chains |->
            IF c = "B"
            THEN WasmChain(ParachainClient(c, ConfiguredClientId[c], << >>, ConfiguredWeight[c]),
                           "code-1", "10-grandpa")
            ELSE ParachainClient(c, ConfiguredClientId[c], << >>, ConfiguredWeight[c])]
    /\ ledger = [c \in Chains |-> WithEnds(InitLedger(c = "B", 0, {}), "Uninit", "Uninit")]
    /\ finality = [c \in Chains |-> << >>]
    /\ queue = [c \in Chains |-> << >>]
    /\ log = [c \in Chains |-> NoLog]
    /\ list = << >>
    /\ batches = << >>
    /\ inflight = [c \in Chains |-> {}]
    /\ ibc_events = [c \in Chains |-> << >>]
    /\ tasks = [c \in Chains |-> "running"]
    /\ justifications = << >>
    /\ boot = [fn |-> "create_connection", pc |-> "start", a |-> chains["A"], b |-> chains["B"],
               cursor |-> 0, result |-> Running]

NextWait ==
    \/ HelperOpenInit
    \/ HelperSubscribe
    \/ HelperAwait
    \/ HelperDeadline
    \/ HelperCreateChannel
    \/ \E X \in Chains : EmptyBlock(X)
    \/ \E S \in Chains : IterateEvents(S)
    \/ \E X \in Chains : DeliverAny(X)

SpecWait == InitWait /\ [][NextWait]_vars

\* C38: no handshake event is lost between the waits of create_connection and of
\* create_channel: an OpenConfirm event emitted on B after the awaited OpenTry but
\* before the second subscription is opened is still seen by the second wait, so
\* under any interleaving of the relayer and the helper no wait runs into its
\* deadline once the handshake is complete on chain
NoEventLost ==
    /\ boot.pc = "await_confirm" =>
            \A e \in ledger["B"].events :
                (e.object = ObjectOf(boot.fn) /\ e.kind = "OpenConfirm") => e.at > boot.cursor
    /\ boot.result.result # "Panic"

----------------------------------------------------------------------------
(* Construction of the chain handles from the configuration *)

\* the value of a hex digit, none for another character
HexValue(c) ==
    CASE c = "0" -> <<0>> [] c = "1" -> <<1>> [] c = "a" -> <<10>> [] c = "A" -> <<10>>
      [] c = "f" -> <<15>> [] c = "F" -> <<15>> [] OTHER -> << >>

\* hex::decode: two digits a byte, an error for an odd length or another character
HexDecode(s) ==
    IF Len(s) % 2 # 0 \/ \E i \in 1..Len(s) : HexValue(s[i]) = << >> THEN [result |-> "Err"]
    ELSE [result |-> "Ok",
          bytes |-> [i \in 1..(Len(s) \div 2) |->
                        16 * HexValue(s[2 * i - 1])[1] + HexValue(s[2 * i])[1]]]

\* the fields of a chain config that into_client reads; the Options are sequences of
\* at most one; `reachable` is whether the chain's endpoints answer
ChainConfig(variant, chain, code, type, reachable) ==
    [variant |-> variant, name |-> chain, wasm_code_id |-> code, wasm_client_type |-> type,
     reachable |-> reachable]

\* a faulty reading of the config, which takes a lone code id or client type as none
WasmCodeIdLenient(config) ==
    IF config.wasm_code_id = << >> \/ config.wasm_client_type = << >>
    THEN [result |-> "Ok", value |-> << >>]
    ELSE IF HexDecode(config.wasm_code_id[1]).result # "Ok"
    THEN Panicked("Wasm code id is hex-encoded")
    ELSE [result |-> "Ok",
          value |-> <<[code_id |-> HexDecode(config.wasm_code_id[1]).bytes,
                       client_type |-> config.wasm_client_type[1]]>>]

\* AnyConfig::wasm_code_id
wasm_code_id(config) ==
    IF (config.wasm_code_id # << >>) # (config.wasm_client_type # << >>)
    THEN Panicked("Wasm code id and client type must be both set or both unset")
    ELSE IF config.wasm_code_id = << >> THEN [result |-> "Ok", value |-> << >>]
    ELSE IF HexDecode(config.wasm_code_id[1]).result # "Ok"
    THEN Panicked("Wasm code id is hex-encoded")
    ELSE [result |-> "Ok",
          value |-> <<[code_id |-> HexDecode(config.wasm_code_id[1]).bytes,
                       client_type |-> config.wasm_client_type[1]]>>]

\* ics08_wasm::add_wasm_client_type: the process-wide map code_id -> client_type
add_wasm_client_type(registry, code_id, client_type) ==
    {r \in registry : r.code_id # code_id}
    \cup {[code_id |-> code_id, client_type |-> client_type]}

\* ParachainClient::new, CosmosClient::new: the handle of the configured chain, an
\* error when its endpoints do not answer
NewClient(config) ==
    IF ~config.reachable THEN Failed("rpc")
    ELSE [result |-> "Ok",
          chain |-> IF config.variant = "Parachain"
                    THEN ParachainClient(config.name, NoClientId, << >>,
                                         ConfiguredWeight[config.name])
                    ELSE [variant |-> "Cosmos", name |-> config.name, client_id |-> NoClientId,
                          channel_whitelist |-> << >>]]

\* AnyConfig::into_client: what it returns and the registry it leaves
into_client(config, registry) ==
    LET maybe_wasm_code_id == wasm_code_id(config)
        client == NewClient(config)
    IN  IF maybe_wasm_code_id.result # "Ok"
        THEN [result |-> "Panic", registry |-> registry]
        ELSE IF client.result # "Ok" THEN [result |-> "Err", registry |-> registry]
        ELSE IF maybe_wasm_code_id.value # << >>
        THEN [result |-> "Ok",
              chain |-> WasmChain(client.chain, maybe_wasm_code_id.value[1].code_id,
                                  maybe_wasm_code_id.value[1].client_type),
              registry |-> add_wasm_client_type(registry, maybe_wasm_code_id.value[1].code_id,
                                                maybe_wasm_code_id.value[1].client_type)]
        ELSE [result |-> "Ok", chain |-> client.chain, registry |-> registry]

\* the code ids and client types an operator may configure
ConfiguredCodeIds == {<< >>, <<<<"0", "a">>>>, <<<<"A", "f">>>>, <<<<"z", "0">>>>, <<<<"1">>>>}

ConfiguredClientTypes == {<< >>, <<"10-grandpa">>, <<"07-tendermint">>}

ChainConfigs(chain) ==
    {ChainConfig(variant, chain, code, type, reachable) :
        variant \in {"Parachain", "Cosmos"}, code \in ConfiguredCodeIds,
        type \in ConfiguredClientTypes, reachable \in BOOLEAN}

\* the relayer starts with the configs of chain_a and chain_b and an empty registry
InitConfig ==
    /\ InitScanned(0, 1, <<<<NoTimeout, NoTimeout>>>>, 1, 1, {}, {1})
    /\ \E a \in ChainConfigs("A"), b \in ChainConfigs("B") : list = <<a, b>>
    /\ batches = << >>
    /\ AuxIdle

\* the registry as the constructions so far have left it
RegistryAfter(results) == IF results = << >> THEN {} ELSE results[Len(results)].registry

\* the next handle is constructed; a failure ends the start-up
IntoClient ==
    /\ Len(batches) < Len(list)
    /\ \A i \in 1..Len(batches) : batches[i].result = "Ok"
    /\ batches' = Append(batches, into_client(list[Len(batches) + 1], RegistryAfter(batches)))
    /\ UNCHANGED <<chains, ledger, finality, queue, log, list, aux>>

NextConfig == IntoClient

SpecConfig == InitConfig /\ [][NextConfig]_vars

\* the bytes of the hex strings configured
DecodedCodeId == (<<"0", "a">> :> <<10>>) @@ (<<"A", "f">> :> <<175>>)

\* C34: into_client returns a Wrapped chain exactly when the config sets both
\* wasm_code_id and wasm_client_type, with the hex-decoded code id and the
\* configured client type, the pair in the registry and an inner chain that is not
\* Wrapped; with neither set it returns the bare chain and registers nothing; with
\* exactly one of the two set the construction fails
WrappedWhenConfigured ==
    \A i \in 1..Len(batches) :
        LET config == list[i]
            r == batches[i]
            before == RegistryAfter(SubSeq(batches, 1, i - 1))
            code == config.wasm_code_id # << >>
            type == config.wasm_client_type # << >>
        IN  /\ r.result = "Ok" => (r.chain.variant = "Wasm" <=> (code /\ type))
            /\ (r.result = "Ok" /\ code /\ type) =>
                    /\ r.chain.code_id = DecodedCodeId[config.wasm_code_id[1]]
                    /\ r.chain.client_type = config.wasm_client_type[1]
                    /\ [code_id |-> r.chain.code_id, client_type |-> r.chain.client_type]
                            \in r.registry
                    /\ r.chain.inner.variant = config.variant
                    /\ r.chain.inner.name = config.name
            /\ (r.result = "Ok" /\ ~code /\ ~type) =>
                    /\ r.chain.variant = config.variant /\ r.chain.name = config.name
                    /\ r.registry = before
            /\ (code # type) => r.result # "Ok" /\ r.registry = before

\* chain_a was constructed wrapped with code id 0x0a, chain_b bare, and the registry
\* holds the one pair
WrappedWhenConfiguredWitness ==
    /\ Len(batches) = 2
    /\ batches[1].result = "Ok" /\ batches[1].chain.variant = "Wasm"
    /\ batches[1].chain.code_id = <<10>>
    /\ batches[2].result = "Ok" /\ batches[2].chain.variant = "Parachain"
    /\ batches[2].registry = {[code_id |-> <<10>>, client_type |-> "10-grandpa"]}

----------------------------------------------------------------------------
(* The verification functions of the GRANDPA client on their own *)

\* what a storage proof rooted at the counterparty's block `height` shows of its
\* next sequence to receive, of its client of the host, and of the host's client state
NextSequenceRecvProved(remote, height, ch, seq) ==
    seq = 1 + Cardinality({r \in remote.receipts : r.channel = ch /\ r.at <= height})

ConsensusStateProved(remote, height, consensus_height) ==
    \E cs \in remote.consensus : cs.height = consensus_height /\ cs.processed_height <= height

ClientStateProved(remote, height, expected_latest_height) ==
    remote.latest_height = expected_latest_height

\* a faulty verification, which does not wait for the connection delay
VerifyNextSequenceRecvAtOnce(l, remote, height, ch, seq) ==
    /\ verify_height(l, height)
    /\ NextSequenceRecvProved(remote, height, ch, seq)

\* GrandpaClient::verify_next_sequence_recv
verify_next_sequence_recv(l, remote, height, ch, seq) ==
    /\ verify_height(l, height)
    /\ verify_delay_passed(l, height)
    /\ NextSequenceRecvProved(remote, height, ch, seq)

\* GrandpaClient::verify_client_consensus_state
verify_client_consensus_state(l, remote, height, consensus_height) ==
    /\ verify_height(l, height)
    /\ ConsensusStateProved(remote, height, consensus_height)

\* GrandpaClient::verify_connection_state: the counterparty's connection end is the
\* one its event `kind` left
verify_connection_state(l, remote, height, kind) ==
    /\ verify_height(l, height)
    /\ EventProved(remote, height, "connection", kind)

\* GrandpaClient::verify_channel_state
verify_channel_state(l, remote, height, kind) ==
    /\ verify_height(l, height)
    /\ EventProved(remote, height, "channel", kind)

\* GrandpaClient::verify_client_full_state
verify_client_full_state(l, remote, height, expected_latest_height) ==
    /\ verify_height(l, height)
    /\ ClientStateProved(remote, height, expected_latest_height)

PacketVerifications ==
    {"verify_packet_data", "verify_packet_acknowledgement", "verify_next_sequence_recv",
     "verify_packet_receipt_absence"}

StateVerifications ==
    {"verify_client_consensus_state", "verify_connection_state", "verify_channel_state",
     "verify_client_full_state"}

\* whether the proof given with the call verifies against the counterparty's root
ProofVerifies(remote, call) ==
    LET ch == ConfiguredWhitelist[1][1]
    IN  CASE call.fn = "verify_packet_data" -> CommitmentProved(remote, call.height, ch, 1)
          [] call.fn = "verify_packet_acknowledgement" -> AckProved(remote, call.height, ch, 1)
          [] call.fn = "verify_next_sequence_recv" ->
                NextSequenceRecvProved(remote, call.height, ch, 1)
          [] call.fn = "verify_packet_receipt_absence" ->
                ReceiptAbsenceProved(remote, call.height, ch, 1)
          [] call.fn = "verify_client_consensus_state" ->
                ConsensusStateProved(remote, call.height, 1)
          [] call.fn = "verify_connection_state" ->
                EventProved(remote, call.height, "connection", "OpenTry")
          [] call.fn = "verify_channel_state" ->
                EventProved(remote, call.height, "channel", "OpenTry")
          [] call.fn = "verify_client_full_state" -> ClientStateProved(remote, call.height, 1)

\* the call of a verification function of the client the host keeps of the remote
\* chain: Ok(()) or an error
ClientDefCall(l, remote, call) ==
    LET ch == ConfiguredWhitelist[1][1]
    IN  CASE call.fn = "verify_packet_data" -> verify_packet_data(l, remote, call.height, ch, 1)
          [] call.fn = "verify_packet_acknowledgement" ->
                verify_packet_acknowledgement(l, remote, call.height, ch, 1)
          [] call.fn = "verify_next_sequence_recv" ->
                verify_next_sequence_recv(l, remote, call.height, ch, 1)
          [] call.fn = "verify_packet_receipt_absence" ->
                verify_packet_receipt_absence(l, remote, call.height, ch, 1)
          [] call.fn = "verify_client_consensus_state" ->
                verify_client_consensus_state(l, remote, call.height, 1)
          [] call.fn = "verify_connection_state" ->
                verify_connection_state(l, remote, call.height, "OpenTry")
          [] call.fn = "verify_channel_state" ->
                verify_channel_state(l, remote, call.height, "OpenTry")
          [] call.fn = "verify_client_full_state" ->
                verify_client_full_state(l, remote, call.height, 1)

\* the host A at any block with its client of B at any height, frozen or not, the
\* consensus states stored at any earlier block, on a connection with or without
\* delay; the remote chain B with or without the packet, its receipt, its
\* acknowledgement and the handshake events
InitVerify ==
    /\ chains = [c \in Chains |->
            ParachainClient(c, ConfiguredClientId[c], ConfiguredWhitelist, ConfiguredWeight[c])]
    /\ \E now \in 1..MaxHeight, latest \in 1..2, frozen \in BOOLEAN, delay \in 0..MaxDelay,
          processed \in [1..2 -> 1..MaxHeight],
          sent \in SUBSET {1, 2}, got \in BOOLEAN, tried \in BOOLEAN :
        /\ \A h \in 1..2 : processed[h] <= now
        /\ ledger =
            [c \in Chains |->
                IF c = "A"
                THEN [WithEnds(InitLedger(FALSE, delay, {}), "Init", "Init")
                        EXCEPT !.height = now, !.time = now, !.latest_height = latest,
                               !.frozen = frozen,
                               !.consensus = {[height |-> h, timestamp |-> h,
                                               processed_time |-> processed[h],
                                               processed_height |-> processed[h]] :
                                                    h \in 1..latest}]
                ELSE [WithEnds(InitLedger(TRUE, delay, {}), "TryOpen", "TryOpen")
                        EXCEPT !.height = 2,
                               !.commitments = {[SentPacket(1, <<NoTimeout, NoTimeout>>)
                                                    EXCEPT !.at = at] : at \in sent},
                               !.receipts = IF got THEN {[channel |-> ConfiguredWhitelist[1][1],
                                                          sequence |-> 1, at |-> 2]}
                                            ELSE {},
                               !.acks = IF got THEN {[channel |-> ConfiguredWhitelist[1][1],
                                                      sequence |-> 1, at |-> 2]}
                                        ELSE {},
                               !.events = IF tried
                                          THEN {[object |-> o, kind |-> "OpenTry", at |-> 2] :
                                                    o \in {"connection", "channel"}}
                                          ELSE {}]]
    /\ finality = [c \in Chains |-> << >>]
    /\ queue = [c \in Chains |-> << >>]
    /\ log = [c \in Chains |-> NoLog]
    /\ \E fn \in PacketVerifications \cup StateVerifications, height \in 1..MaxHeight :
            list = [fn |-> fn, height |-> height]
    /\ batches = << >>
    /\ AuxIdle

\* the handler calls the verification function
Verify ==
    /\ batches = << >>
    /\ batches' = <<ClientDefCall(ledger["A"], ledger["B"], list)>>
    /\ UNCHANGED <<chains, ledger, finality, queue, log, list, aux>>

NextVerify == Verify

SpecVerify == InitVerify /\ [][NextVerify]_vars

\* C35: verify_packet_data, verify_packet_acknowledgement, verify_next_sequence_recv
\* and verify_packet_receipt_absence return an error unless the proof height passes
\* verify_height and the connection delay, in time and in blocks, has passed on
\* the host since the consensus state of that height was processed, whatever the
\* proof; verify_client_consensus_state, verify_connection_state,
\* verify_channel_state and verify_client_full_state check the height and the
\* proof but not the delay
DelayBeforeProof ==
    batches # << >> =>
        LET l == ledger["A"]
            at == {cs \in l.consensus : cs.height = list.height}
            height_ok == list.height <= l.latest_height /\ ~l.frozen
            delay_ok == \E cs \in at :
                            /\ l.time >= cs.processed_time + l.delay_period
                            /\ l.height >= cs.processed_height + block_delay(l.delay_period)
        IN  /\ list.fn \in PacketVerifications =>
                (batches[1] <=> (height_ok /\ delay_ok /\ ProofVerifies(ledger["B"], list)))
            /\ list.fn \in StateVerifications =>
                (batches[1] <=> (height_ok /\ ProofVerifies(ledger["B"], list)))

\* a proof of the next sequence to receive that verifies, at a height the client has
\* reached, is rejected while the connection delay is running
DelayBeforeProofWitness ==
    /\ batches = <<FALSE>>
    /\ list.fn = "verify_next_sequence_recv"
    /\ verify_height(ledger["A"], list.height)
    /\ ProofVerifies(ledger["B"], list)
    /\ ~verify_delay_passed(ledger["A"], list.height)

----------------------------------------------------------------------------
(* Notifications the finality stream cannot use *)

\* C36: a justification notification that fails to be fetched or to decode does
\* not end or stall the finality stream, with Grandpa or with Beefy: no finality
\* event is emitted for it, and every later retained notification that decodes is
\* still delivered, in the order of the subscription
BadNotificationDropped ==
    (justifications.subscribed /\ tasks["A"] # "panicked") =>
        LET p == IF chains["A"].variant = "Wasm" THEN chains["A"].inner ELSE chains["A"]
            stream == justifications.stream
            n == Len(stream)
            retained == IF p.finality_protocol = "Grandpa"
                        THEN {k \in 1..n : k % ChunkSize = 0 \/ (justifications.closed /\ k = n)}
                        ELSE 1..n
            numbers == Numbers(justifications.events)
            delivered == [i \in 1..Len(finality["A"]) |-> finality["A"][i].height]
        IN  /\ \A k \in 1..n : ~GoodNotification(stream[k]) =>
                    /\ k \notin Range(numbers)
                    /\ \A j \in retained :
                            (j > k /\ GoodNotification(stream[j])) => j \in Range(numbers)
            /\ \A i, j \in 1..Len(numbers) : i < j => numbers[i] < numbers[j]
            /\ \A i \in 1..Len(numbers) : justifications.events[i].event.protocol = p.finality_protocol
            /\ \E i \in 0..Len(numbers) : delivered = SubSeq(numbers, i + 1, Len(numbers))

\* with Beefy the second of three notifications does not decode: the first and the
\* third are made finality events
BadNotificationDroppedWitness ==
    /\ justifications.subscribed
    /\ (IF chains["A"].variant = "Wasm" THEN chains["A"].inner
        ELSE chains["A"]).finality_protocol = "Beefy"
    /\ Len(justifications.stream) = 3
    /\ ~GoodNotification(justifications.stream[2])
    /\ Numbers(justifications.events) = <<1, 3>>

----------------------------------------------------------------------------
(* A finality event of another chain kind *)

\* C37: AnyChain::query_latest_ibc_events called with a finality event whose kind
\* does not match the chain returns the error 'Invalid finality event type', without
\* a panic and without querying the chain; with a matching kind the chain is
\* queried with the event and its answer returned as it is
MismatchIsAnError ==
    (batches # << >> /\ list.call.op = "query_latest_ibc_events") =>
        LET finality_event == list.call.finality_event
            r == batches[1]
        IN  IF finality_event.variant # "Parachain"
            THEN /\ r.returned.result = "Err"
                 /\ r.returned.error = "Invalid finality event type"
                 /\ r.queried = << >>
            ELSE /\ r.returned = list.call.answer
                 /\ r.queried = <<finality_event.event>>

\* a cosmos finality event was given to the parachain handle while the chain would
\* have answered: the call returned the error
MismatchIsAnErrorWitness ==
    /\ batches # << >>
    /\ list.call.op = "query_latest_ibc_events"
    /\ list.chain.variant = "Parachain"
    /\ list.call.finality_event.variant = "Cosmos"
    /\ list.call.answer.result = "Ok"
    /\ batches[1].returned.result = "Err"

====
